---- MODULE Spec2Model ----
(***************************************************************************)
(* DuckLake write path and file lifecycle.                                 *)
(*                                                                         *)
(*  - file cleanup table functions (ducklake_cleanup_old_files,            *)
(*    ducklake_delete_orphaned_files): CleanupBind, DuckLakeCleanupInit,   *)
(*    DuckLakeCleanupExecute                                               *)
(*  - the update operator DuckLakeUpdate: Sink, Combine, Finalize, GetData *)
(*  - DuckLakeCatalog::PlanUpdate                                          *)
(*                                                                         *)
(* One behaviour exercises one entry point, chosen by `entry`.             *)
(***************************************************************************)
EXTENDS Integers, Sequences, FiniteSets, TLC

VARIABLES
    entry,          \* which entry point this behaviour exercises
    \* ---- storage and catalog, shared by the cleanup functions
    fs,             \* paths physically present on storage
    scheduled,      \* catalog rows: paths the catalog references as scheduled for cleanup
    config,         \* catalog option orphan_file_delete_older_than ("" when not set)
    \* ---- one cleanup table-function invocation
    call,           \* the call being bound: [type, named_parameters]
    bind_data,      \* CleanupBindData, or the error CleanupBind threw
    offset,         \* DuckLakeCleanupData::offset
    executed,       \* DuckLakeCleanupData::executed
    calls,          \* number of DuckLakeCleanupExecute calls made so far
    log,            \* side effects performed, in program order
    output,         \* one entry per DuckLakeCleanupExecute call: the paths it emitted
    \* ---- one DuckLakeUpdate operator
    next_row,       \* next row of the child plan not yet handed to a Sink call
    lstate,         \* per thread: [pc, updated_count]
    total_updated_count, \* DuckLakeUpdateGlobalState::total_updated_count
    copy_sunk,      \* chunks passed to copy_op.Sink, in order: [thread, rows]
    delete_sunk,    \* chunks passed to delete_op.Sink, in order: [thread, rows]
    upc,            \* position of the operator: sink, finalize, replay, ready, error, done
    trace,          \* calls made on the nested operators during Combine/Finalize, in order
    produced,       \* chunks copy_op.GetData returned during the replay: [size, result]
    insert_sunk,    \* chunk sizes passed to insert_op.Sink, in order
    result_chunk,   \* what DuckLakeUpdate::GetData emitted
    \* ---- one PlanUpdate call
    plan_op,        \* the LogicalUpdate being planned
    plan,           \* what PlanUpdate returned or threw
    bound,          \* the update statement before and after BindUpdateConstraints (NotBound before)
    plan_sunk,      \* the chunks one Sink call of the planned operator handed on (NotSunk before)
    \* ---- one DuckLakeDeleteMap shared by the threads of a write
    active,         \* the threads calling into the map
    file_map,       \* DuckLakeDeleteMap::file_map: per file name 0 (no entry) or the entry's file id
    delete_data_map, \* DuckLakeDeleteMap::delete_data_map: per file name Absent or <<rows>>
    mutex,          \* DuckLakeDeleteMap::lock: 0 when free, else the thread holding it
    rstate,         \* per thread: the call it is in or last made, and what that call returned
    rcalls,         \* number of calls started so far
    raced,          \* TRUE once two unsynchronised accesses of file_map overlapped, one a write
    merged,         \* per file name: every row id passed to AddDeleteData since the last ClearDeletes
    recorded,       \* per file name: the first and the latest file id passed to AddExtendedFileInfo
    \* ---- one use of the DuckLakeTypes codec
    ty_type,        \* the LogicalType passed to ToString (NoType before)
    ty_encoded,     \* what ToString returned or threw
    ty_token,       \* the string passed to FromString: Absent or <<string>>
    ty_decoded,     \* what FromString returned or threw
    ty_checked      \* the type passed to CheckSupportedType and how the call ended (NotChecked before)

cleanup_vars == <<fs, scheduled, config, call, bind_data, offset, executed, calls, log, output>>
update_vars == <<next_row, lstate, total_updated_count, copy_sunk, delete_sunk, upc, trace,
                 produced, insert_sunk, result_chunk>>
plan_vars == <<plan_op, plan, plan_sunk, bound>>
registry_vars == <<active, file_map, delete_data_map, mutex, rstate, rcalls, raced, merged, recorded>>
types_vars == <<ty_type, ty_encoded, ty_token, ty_decoded, ty_checked>>
vars == <<entry, cleanup_vars, update_vars, plan_vars, registry_vars, types_vars>>

-----------------------------------------------------------------------------
(* Bounds *)

\* number of distinct file paths
MaxFiles == 3
\* number of DuckLakeCleanupExecute calls explored after a bind
MaxCalls == 4
\* rows per output batch; 2048 in the engine, scaled down so that a candidate
\* list spans several batches
STANDARD_VECTOR_SIZE == 2

-----------------------------------------------------------------------------
(* Generic helpers *)

Range(s) == {s[i] : i \in DOMAIN s}

Min(a, b) == IF a < b THEN a ELSE b

RECURSIVE Flatten(_)
Flatten(ss) == IF ss = <<>> THEN <<>> ELSE Head(ss) \o Flatten(Tail(ss))

RECURSIVE SortedSeq(_)
\* the elements of a finite set of integers, ascending
SortedSeq(S) ==
    IF S = {} THEN <<>>
    ELSE LET m == CHOOSE x \in S : \A y \in S : x <= y
         IN <<m>> \o SortedSeq(S \ {m})

\* An optional value: <<>> when absent, <<v>> when present.
Absent == <<>>
Present(o) == o # <<>>

-----------------------------------------------------------------------------
(* Storage, catalog and the metadata service seen by the cleanup functions *)

Paths == 1 .. MaxFiles

\* schedule_start / last_modified of a path
TimeOf(p) == p

\* NOW() as the metadata service evaluates it
Now == MaxFiles + 1

Timestamps == 2 .. MaxFiles

\* values of the option orphan_file_delete_older_than; "" when not configured
IntervalOptions == {"", "1 day", "2 days"}

IntervalLength(s) == CASE s = "1 day" -> 1 [] s = "2 days" -> 2 [] OTHER -> 0

OLD_FILES == "OLD_FILES"
ORPHANED_FILES == "ORPHANED_FILES"
CleanupTypes == {OLD_FILES, ORPHANED_FILES}

\* timestamp_filter is a string in the code: empty, a formatted timestamp
\* literal, or the expression NOW() - INTERVAL '<interval>'.
EmptyString == [kind |-> "empty", ts |-> 0, interval |-> ""]
TimestampToString(t) == [kind |-> "literal", ts |-> t, interval |-> ""]
NowMinusInterval(s) == [kind |-> "now_minus_interval", ts |-> 0, interval |-> s]

NoFilter == [clause |-> "", quoted |-> FALSE, expr |-> EmptyString]

GetFilter(type, timestamp_filter, default_interval) ==
    IF timestamp_filter = EmptyString THEN NoFilter
    ELSE LET quote == ~default_interval
         IN CASE type = OLD_FILES ->
                   [clause |-> "WHERE schedule_start <", quoted |-> TRUE,
                    expr |-> timestamp_filter]
              [] type = ORPHANED_FILES ->
                   [clause |-> " AND last_modified <", quoted |-> quote,
                    expr |-> timestamp_filter]

\* The cutoff a filter clause denotes once the metadata service evaluates it.
FilterCutoff(filter) ==
    IF filter.expr.kind = "literal" THEN filter.expr.ts
    ELSE Now - IntervalLength(filter.expr.interval)

FilterPasses(filter, p) == filter = NoFilter \/ TimeOf(p) < FilterCutoff(filter)

\* Candidate files for a cleanup: rows scheduled for cleanup (old files), or
\* files on storage that no catalog row references (orphans), that pass the filter.
GetFilesForCleanup(filter, type, store, rows) ==
    IF type = OLD_FILES
    THEN SortedSeq({p \in rows : FilterPasses(filter, p)})
    ELSE SortedSeq({p \in store \ rows : FilterPasses(filter, p)})

-----------------------------------------------------------------------------
(* CleanupBind *)

OptBool == {Absent, <<TRUE>>, <<FALSE>>}
OptTimestamp == {Absent} \cup {<<t>> : t \in Timestamps}

\* input.named_parameters: each declared parameter is absent or given a value
NamedParameters == [dry_run : OptBool, cleanup_all : OptBool, older_than : OptTimestamp]

\* the loop over input.named_parameters: what it leaves in the locals
ParamDryRun(np) == Present(np.dry_run)
ParamCleanupAll(np) == Present(np.cleanup_all)
ParamHasTimestamp(np) == Present(np.older_than)

\* faulty variant: the configured default interval is not consulted
CleanupBindRejectsNoDefaultCheck(cleanup_all, has_timestamp, older_than_default) ==
    \/ (cleanup_all = has_timestamp /\ cleanup_all = TRUE)
    \/ (cleanup_all = has_timestamp /\ cleanup_all = FALSE)

\* the condition under which CleanupBind throws InvalidInputException
CleanupBindRejects(cleanup_all, has_timestamp, older_than_default) ==
    \/ (cleanup_all = has_timestamp /\ cleanup_all = TRUE)
    \/ (cleanup_all = has_timestamp /\ cleanup_all = FALSE /\ older_than_default = "")

\* the timestamp_filter / default_interval CleanupBind stores
BindTimestampFilter(np, cleanup_all, has_timestamp, older_than_default) ==
    IF has_timestamp THEN TimestampToString(np.older_than[1])
    ELSE IF ~cleanup_all /\ older_than_default # "" THEN NowMinusInterval(older_than_default)
    ELSE EmptyString

BindDefaultInterval(cleanup_all, has_timestamp, older_than_default) ==
    ~has_timestamp /\ ~cleanup_all /\ older_than_default # ""

BindError(name) ==
    [status |-> "error", error |-> name, type |-> "", dry_run |-> FALSE,
     default_interval |-> FALSE, timestamp_filter |-> EmptyString, files |-> <<>>]

CleanupBind(type, np, older_than_default, store, rows) ==
    LET dry_run == ParamDryRun(np)
        cleanup_all == ParamCleanupAll(np)
        has_timestamp == ParamHasTimestamp(np)
    IN IF CleanupBindRejects(cleanup_all, has_timestamp, older_than_default)
       THEN BindError("InvalidInputException")
       ELSE LET tf == BindTimestampFilter(np, cleanup_all, has_timestamp, older_than_default)
                di == BindDefaultInterval(cleanup_all, has_timestamp, older_than_default)
            IN [status |-> "ok", error |-> "", type |-> type, dry_run |-> dry_run,
                default_interval |-> di, timestamp_filter |-> tf,
                files |-> GetFilesForCleanup(GetFilter(type, tf, di), type, store, rows)]

DuckLakeCleanupOldFilesBind(np, store, rows) == CleanupBind(OLD_FILES, np, "", store, rows)

DuckLakeCleanupOrphanedFilesBind(np, option, store, rows) ==
    CleanupBind(ORPHANED_FILES, np, option, store, rows)

Unbound == BindError("unbound")

NoCall == [type |-> "", named_parameters |-> [dry_run |-> Absent, cleanup_all |-> Absent,
                                               older_than |-> Absent]]

\* Binding a cleanup table function, followed by DuckLakeCleanupInit.
Bind ==
    /\ entry = "cleanup"
    /\ bind_data = Unbound
    /\ \E type \in CleanupTypes, np \in NamedParameters :
          /\ call' = [type |-> type, named_parameters |-> np]
          /\ bind_data' = IF type = OLD_FILES
                          THEN DuckLakeCleanupOldFilesBind(np, fs, scheduled)
                          ELSE DuckLakeCleanupOrphanedFilesBind(np, config, fs, scheduled)
    /\ offset' = 0
    /\ executed' = FALSE
    /\ UNCHANGED <<entry, fs, scheduled, config, calls, log, output>>
    /\ UNCHANGED <<update_vars, plan_vars, registry_vars, types_vars>>

-----------------------------------------------------------------------------
(* DuckLakeCleanupExecute *)

Event(op, path, ok, files) == [op |-> op, path |-> path, ok |-> ok, files |-> files]

\* faulty variant: the loop ends at the first removal that fails
RemoveEventsUntilFailure(files, store) ==
    LET attempt(i) == Event("TryRemoveFile", files[i],
                            files[i] \in store /\ \A j \in 1 .. (i - 1) : files[j] # files[i], <<>>)
        last == IF \A i \in 1 .. Len(files) : attempt(i).ok THEN Len(files)
                ELSE CHOOSE i \in 1 .. Len(files) :
                        ~attempt(i).ok /\ \A j \in 1 .. (i - 1) : attempt(j).ok
    IN [i \in 1 .. last |-> attempt(i)]

\* fs.TryRemoveFile(file.path) for every candidate, in list order: a removal
\* succeeds when the file is (still) there
RemoveEvents(files, store) ==
    [i \in 1 .. Len(files) |->
        Event("TryRemoveFile", files[i],
              files[i] \in store /\ \A j \in 1 .. (i - 1) : files[j] # files[i], <<>>)]

CatalogEvent(files) == Event("RemoveFilesScheduledForCleanup", 0, TRUE, files)

\* faulty variant: dry_run is not consulted
ShouldDeleteIgnoringDryRun(was_executed, dry_run) == ~was_executed

\* line 130: the destructive phase runs on the first call of a non-dry run
ShouldDelete(was_executed, dry_run) == ~was_executed /\ ~dry_run

\* faulty variant: catalog rows are removed for either cleanup type
TouchesCatalogAlways(type) == TRUE

\* line 136: only old-file cleanup removes catalog rows
TouchesCatalog(type) == type = OLD_FILES

\* faulty variant: catalog rows are removed before the files
DestructiveEventsCatalogFirst(data, store) ==
    (IF TouchesCatalog(data.type) THEN <<CatalogEvent(data.files)>> ELSE <<>>)
        \o RemoveEvents(data.files, store)

\* lines 131-141: the side effects of the destructive phase, in program order
DestructiveEvents(data, store) ==
    RemoveEvents(data.files, store)
        \o (IF TouchesCatalog(data.type) THEN <<CatalogEvent(data.files)>> ELSE <<>>)

\* faulty variant: the flag is left as it was
ExecutedAfterDeleteNotSet == FALSE

\* line 141: state.executed = true closes the destructive phase
ExecutedAfterDelete == TRUE

\* faulty variant: the loop does not stop at a full vector
EmitBatchUnbounded(files, off) == SubSeq(files, off + 1, Len(files))

\* lines 144-150: the batch of paths one call emits
EmitBatch(files, off) == SubSeq(files, off + 1, Min(Len(files), off + STANDARD_VECTOR_SIZE))

DuckLakeCleanupExecute ==
    /\ entry = "cleanup"
    /\ bind_data.status = "ok"
    /\ calls < MaxCalls
    /\ calls' = calls + 1
    /\ IF offset >= Len(bind_data.files)
       THEN /\ output' = Append(output, <<>>)
            /\ UNCHANGED <<fs, scheduled, offset, executed, log>>
       ELSE /\ IF ShouldDelete(executed, bind_data.dry_run)
               THEN /\ fs' = fs \ Range(bind_data.files)
                    /\ scheduled' = IF TouchesCatalog(bind_data.type)
                                    THEN scheduled \ Range(bind_data.files)
                                    ELSE scheduled
                    /\ log' = log \o DestructiveEvents(bind_data, fs)
                    /\ executed' = ExecutedAfterDelete
               ELSE UNCHANGED <<fs, scheduled, log, executed>>
            /\ output' = Append(output, EmitBatch(bind_data.files, offset))
            /\ offset' = offset + Len(EmitBatch(bind_data.files, offset))
    /\ UNCHANGED <<entry, config, call, bind_data>>
    /\ UNCHANGED <<update_vars, plan_vars, registry_vars, types_vars>>

NextCleanup == Bind \/ DuckLakeCleanupExecute

-----------------------------------------------------------------------------
(* DuckLakeUpdate: the rows of the child plan *)

\* worker threads sinking into the operator
NumThreads == 2
\* rows the child plan produces in total
MaxRows == 3
\* rows per input chunk
MaxChunk == 2
\* updated columns of the table (columns.size())
NumColumns == 1
\* calls of copy_op.GetData the replay makes before the copy source is exhausted
MaxReplay == 2
\* rows per chunk returned by copy_op.GetData
MaxSourceChunk == 1

Threads == 1 .. NumThreads

\* row_id_index = columns.size() (0-based column index of the row id)
row_id_index == NumColumns

\* A child row: the projected column values, the row id, and the three
\* row-identifier columns (file, file row offset, row id) the delete needs.
ColumnCount == NumColumns + 4

\* A bound expression: a reference to a child column, a default marker, or a
\* scalar function applied to a column reference.
BoundReferenceExpression(index) == [type |-> "BOUND_REF", index |-> index, function |-> ""]
ValueDefault == [type |-> "VALUE_DEFAULT", index |-> 0, function |-> ""]
GetFunction(column_reference, function_name) ==
    [type |-> "BOUND_FUNCTION", index |-> column_reference.index, function |-> function_name]
NotImplemented == [type |-> "NotImplementedException", index |-> 0, function |-> ""]

\* the value an expression of the operator computes over a row of the child
\* plan (ExpressionExecutor::Execute, line 94)
ExecuteExpression(expr, row) ==
    IF expr.type = "BOUND_REF" THEN row[expr.index + 1]
    ELSE <<expr.function, row[expr.index + 1]>>

\* A row of a child plan over n updated columns
ChildRow(n, r) ==
    [c \in 1 .. (n + 4) |->
        IF c <= n THEN 10 * c + r
        ELSE IF c = n + 1 THEN r
        ELSE IF c = n + 2 THEN 100 + (r % 2)
        ELSE IF c = n + 3 THEN 200 + r
        ELSE r]

InputRow(r) == ChildRow(NumColumns, r)

InputChunk(first, n) == [i \in 1 .. n |-> InputRow(first + i - 1)]

\* faulty variant: the last column is left as the executor wrote it
InsertChunkWithoutRowId(expressions, rid_index, chunk) ==
    [i \in 1 .. Len(chunk) |->
        [c \in 1 .. Len(expressions) |-> ExecuteExpression(expressions[c], chunk[i])]]

\* lines 92-96: the expression results of every row and, as last column of
\* the insert chunk, the child's row id column
InsertChunkOf(expressions, rid_index, chunk) ==
    [i \in 1 .. Len(chunk) |->
        [c \in 1 .. (Len(expressions) + 1) |->
            IF c <= Len(expressions) THEN ExecuteExpression(expressions[c], chunk[i])
            ELSE chunk[i][rid_index + 1]]]

\* the operator of this section passes its NumColumns columns through
InsertChunk(chunk) ==
    InsertChunkOf([c \in 1 .. NumColumns |-> BoundReferenceExpression(c - 1)],
                  row_id_index, chunk)

\* lines 102-107: the last three of the column_count columns of the input chunk
DeleteChunkOf(column_count, chunk) ==
    LET delete_idx_start == column_count - 3
    IN [i \in 1 .. Len(chunk) |-> [c \in 1 .. 3 |-> chunk[i][delete_idx_start + c]]]

DeleteChunk(chunk) == DeleteChunkOf(ColumnCount, chunk)

RECURSIVE SumOver(_, _)
\* the sum of f[x] over a finite set S
SumOver(f, S) ==
    IF S = {} THEN 0
    ELSE LET x == CHOOSE y \in S : TRUE IN f[x] + SumOver(f, S \ {x})

-----------------------------------------------------------------------------
(* DuckLakeUpdate::Sink *)

\* line 112
LocalCountAfterSink(count, chunk) == count + Len(chunk)

Sink(t) ==
    /\ entry = "update"
    /\ upc = "sink"
    /\ lstate[t].pc = "sink"
    /\ \E n \in 1 .. MaxChunk :
          /\ next_row + n - 1 <= MaxRows
          /\ LET chunk == InputChunk(next_row, n)
             IN /\ copy_sunk' = Append(copy_sunk, [thread |-> t, rows |-> InsertChunk(chunk)])
                /\ delete_sunk' = Append(delete_sunk, [thread |-> t, rows |-> DeleteChunk(chunk)])
                /\ lstate' = [lstate EXCEPT ![t].updated_count =
                                 LocalCountAfterSink(lstate[t].updated_count, chunk)]
          /\ next_row' = next_row + n
    /\ UNCHANGED <<entry, total_updated_count, upc, trace, produced, insert_sunk, result_chunk>>
    /\ UNCHANGED <<cleanup_vars, plan_vars, registry_vars, types_vars>>

-----------------------------------------------------------------------------
(* DuckLakeUpdate::Combine *)

SinkCombineResultType == {"FINISHED", "BLOCKED"}

Call(op, thread, result) == [op |-> op, thread |-> thread, result |-> result]

\* faulty variant: the total is assigned, not added to
TotalAfterCombineOverwrite(total, local) == local

\* line 134: atomic<idx_t> += local count
TotalAfterCombine(total, local) == total + local

\* faulty variant: the result of the nested Combine is not looked at
AfterCombineIgnoringResult(result, proceed) == proceed

\* lines 124-126, 130-132: a nested Combine that does not return FINISHED
\* throws InternalException; otherwise Combine goes on
AfterCombine(result, proceed) == IF result # "FINISHED" THEN "error" ELSE proceed

Combine(t) ==
    /\ entry = "update"
    /\ upc = "sink"
    /\ lstate[t].pc = "sink"
    /\ \E copy_result \in SinkCombineResultType, delete_result \in SinkCombineResultType :
          IF AfterCombine(copy_result, "delete_combine") = "error"
          THEN /\ trace' = Append(trace, Call("copy_op.Combine", t, copy_result))
               /\ lstate' = [lstate EXCEPT ![t].pc = "failed"]
               /\ upc' = "error"
               /\ UNCHANGED total_updated_count
          ELSE IF AfterCombine(delete_result, "add") = "error"
          THEN /\ trace' = trace \o <<Call("copy_op.Combine", t, copy_result),
                                      Call("delete_op.Combine", t, delete_result)>>
               /\ lstate' = [lstate EXCEPT ![t].pc = "failed"]
               /\ upc' = "error"
               /\ UNCHANGED total_updated_count
          ELSE /\ trace' = trace \o <<Call("copy_op.Combine", t, copy_result),
                                      Call("delete_op.Combine", t, delete_result)>>
               /\ total_updated_count' =
                      TotalAfterCombine(total_updated_count, lstate[t].updated_count)
               /\ lstate' = [lstate EXCEPT ![t].pc = "combined"]
               /\ UNCHANGED upc
    /\ UNCHANGED <<entry, next_row, copy_sunk, delete_sunk, produced, insert_sunk, result_chunk>>
    /\ UNCHANGED <<cleanup_vars, plan_vars, registry_vars, types_vars>>

-----------------------------------------------------------------------------
(* DuckLakeUpdate::Finalize *)

SinkFinalizeType == {"READY", "NO_OUTPUT_POSSIBLE", "BLOCKED"}
SourceResultType == {"HAVE_MORE_OUTPUT", "FINISHED", "BLOCKED"}
SinkResultType == {"NEED_MORE_INPUT", "FINISHED", "BLOCKED"}

AllCombined == \A t \in Threads : lstate[t].pc = "combined"

\* faulty variant: the result of the nested Finalize is not looked at
AfterFinalizeIgnoringResult(result, proceed) == proceed

\* lines 145-147, 150-152, 187-189: a nested Finalize that does not return
\* READY throws InternalException; otherwise Finalize goes on
AfterFinalize(result, proceed) == IF result # "READY" THEN "error" ELSE proceed

\* lines 143-164: finalize the copy, then the delete; set up the replay
FinalizeBegin ==
    /\ entry = "update"
    /\ upc = "sink"
    /\ AllCombined
    /\ \E copy_result \in SinkFinalizeType, delete_result \in SinkFinalizeType :
          IF AfterFinalize(copy_result, "delete_finalize") = "error"
          THEN /\ trace' = Append(trace, Call("copy_op.Finalize", 0, copy_result))
               /\ upc' = "error"
          ELSE /\ trace' = trace \o <<Call("copy_op.Finalize", 0, copy_result),
                                      Call("delete_op.Finalize", 0, delete_result)>>
               /\ upc' = AfterFinalize(delete_result, "replay")
    /\ UNCHANGED <<entry, next_row, lstate, total_updated_count, copy_sunk, delete_sunk,
                   produced, insert_sunk, result_chunk>>
    /\ UNCHANGED <<cleanup_vars, plan_vars, registry_vars, types_vars>>

\* What one iteration of the replay loop (lines 168-184) does with the chunk
\* copy_op.GetData returned: "break", "throw", or "sink" it.
ReplayDecision(size, source_result) ==
    IF size = 0 THEN "break"
    ELSE IF source_result = "BLOCKED" THEN "throw"
    ELSE "sink"

\* lines 178-183: after insert_op.Sink
ReplayAfterSink(source_result, sink_result) ==
    IF sink_result = "BLOCKED" THEN "throw"
    ELSE IF source_result = "FINISHED" THEN "break"
    ELSE "continue"

\* faulty variant: the chunk is not handed on
InsertSunkAfterDropping(sunk, size) == sunk

\* line 177: the chunk is handed to insert_op.Sink
InsertSunkAfter(sunk, size) == Append(sunk, size)

\* One iteration of the replay loop. Every copy_op.GetData call sets the
\* cardinality of copy_source_chunk (to 0 when it has no rows to give) and
\* returns any SourceResultType; insert_op.Sink returns any SinkResultType.
\* The copy source is finite: its MaxReplay-th answer does not announce more
\* output.
ReplayStep ==
    /\ entry = "update"
    /\ upc = "replay"
    /\ \E size \in 0 .. MaxSourceChunk, source_result \in SourceResultType,
          sink_result \in SinkResultType :
          /\ Len(produced) + 1 >= MaxReplay => ~(size > 0 /\ source_result = "HAVE_MORE_OUTPUT")
          /\ produced' = Append(produced, [size |-> size, result |-> source_result])
          /\ LET decision == ReplayDecision(size, source_result)
             IN IF decision = "break"
                THEN /\ trace' = Append(trace, Call("copy_op.GetData", 0, source_result))
                     /\ upc' = "insert_finalize"
                     /\ UNCHANGED insert_sunk
                ELSE IF decision = "throw"
                THEN /\ trace' = Append(trace, Call("copy_op.GetData", 0, source_result))
                     /\ upc' = "error"
                     /\ UNCHANGED insert_sunk
                ELSE /\ trace' = trace \o <<Call("copy_op.GetData", 0, source_result),
                                            Call("insert_op.Sink", 0, sink_result)>>
                     /\ insert_sunk' = InsertSunkAfter(insert_sunk, size)
                     /\ upc' = LET after == ReplayAfterSink(source_result, sink_result)
                               IN IF after = "throw" THEN "error"
                                  ELSE IF after = "break" THEN "insert_finalize"
                                  ELSE "replay"
    /\ UNCHANGED <<entry, next_row, lstate, total_updated_count, copy_sunk, delete_sunk,
                   result_chunk>>
    /\ UNCHANGED <<cleanup_vars, plan_vars, registry_vars, types_vars>>

\* lines 186-191: finalize the insert and return READY
FinalizeEnd ==
    /\ entry = "update"
    /\ upc = "insert_finalize"
    /\ \E insert_result \in SinkFinalizeType :
          /\ trace' = Append(trace, Call("insert_op.Finalize", 0, insert_result))
          /\ upc' = AfterFinalize(insert_result, "ready")
    /\ UNCHANGED <<entry, next_row, lstate, total_updated_count, copy_sunk, delete_sunk,
                   produced, insert_sunk, result_chunk>>
    /\ UNCHANGED <<cleanup_vars, plan_vars, registry_vars, types_vars>>

-----------------------------------------------------------------------------
(* DuckLakeUpdate::GetData *)

\* lines 199-203: one row holding the global total
ResultChunk(total) == <<total>>

GetData ==
    /\ entry = "update"
    /\ upc = "ready"
    /\ result_chunk' = ResultChunk(total_updated_count)
    /\ upc' = "done"
    /\ UNCHANGED <<entry, next_row, lstate, total_updated_count, copy_sunk, delete_sunk,
                   trace, produced, insert_sunk>>
    /\ UNCHANGED <<cleanup_vars, plan_vars, registry_vars, types_vars>>

NextUpdate ==
    \/ \E t \in Threads : Sink(t)
    \/ \E t \in Threads : Combine(t)
    \/ FinalizeBegin
    \/ ReplayStep
    \/ FinalizeEnd
    \/ GetData

-----------------------------------------------------------------------------
(* DuckLakeCatalog::PlanUpdate *)

\* physical columns of the updated table
MaxColumns == 2
\* partition fields of the table
MaxPartitionFields == 1

TransformTypes == {"IDENTITY", "YEAR", "MONTH", "DAY", "HOUR"}
\* an enumerator value outside the ones the switch names
UnknownTransform == "UNKNOWN"

\* faulty variant: DAY is bound to the month function
GetPartitionExpressionDayAsMonth(column_reference, field) ==
    CASE field.transform = "IDENTITY" -> column_reference
      [] field.transform = "YEAR" -> GetFunction(column_reference, "year")
      [] field.transform = "MONTH" -> GetFunction(column_reference, "month")
      [] field.transform = "DAY" -> GetFunction(column_reference, "month")
      [] field.transform = "HOUR" -> GetFunction(column_reference, "hour")
      [] OTHER -> NotImplemented

\* lines 232-249
GetPartitionExpressionForUpdate(column_reference, field) ==
    CASE field.transform = "IDENTITY" -> column_reference
      [] field.transform = "YEAR" -> GetFunction(column_reference, "year")
      [] field.transform = "MONTH" -> GetFunction(column_reference, "month")
      [] field.transform = "DAY" -> GetFunction(column_reference, "day")
      [] field.transform = "HOUR" -> GetFunction(column_reference, "hour")
      [] OTHER -> NotImplemented

\* lines 280-284: expression_map[op.columns[i].index] = i; a key never stored
\* reads as 0
ExpressionMap(columns, key) ==
    LET hits == {j \in 1 .. Len(columns) : columns[j] = key}
    IN IF hits = {} THEN 0 ELSE (CHOOSE j \in hits : \A k \in hits : k <= j) - 1

\* lines 285-287: expression i is the one assigned to physical column i
OrderedExpressions(op) ==
    [i \in 1 .. Len(op.columns) |-> op.expressions[ExpressionMap(op.columns, i - 1) + 1]]

\* lines 288-296: one expression per partition field, over the reordered expressions
PartitionExpressions(op, expressions) ==
    [f \in 1 .. Len(op.partition_fields) |->
        LET child_expression == expressions[op.partition_fields[f].partition_key_index + 1]
        IN GetPartitionExpressionForUpdate(
               BoundReferenceExpression(child_expression.index), op.partition_fields[f])]

PlanResult(status, error, message, planned, allow_duplicates, expressions) ==
    [status |-> status, error |-> error, message |-> message, planned |-> planned,
     allow_duplicates |-> allow_duplicates, expressions |-> expressions]

HasDefault(op) == \E i \in 1 .. Len(op.expressions) : op.expressions[i].type = "VALUE_DEFAULT"

\* faulty variant: the RETURNING check is missing
RejectsAtBindNoReturningCheck(op) == HasDefault(op)

\* lines 253-260: the statement shapes PlanUpdate refuses
RejectsAtBind(op) == op.return_chunk \/ HasDefault(op)

\* DuckLakeDelete::PlanDelete declares allow_duplicates = true as its default
PlanDeleteDefaultAllowDuplicates == TRUE

\* faulty variant: the argument is left out, so PlanDelete's default applies
UpdateAllowDuplicatesOmitted == PlanDeleteDefaultAllowDuplicates

\* lines 274-275: the allow_duplicates argument PlanUpdate passes to PlanDelete
UpdateAllowDuplicates == FALSE

\* The delete operator invalidating a batch of row identifiers: a repeated
\* identifier is an error unless duplicates are allowed, in which case the
\* repetitions are dropped.
InvalidateTargets(allow_duplicates, targets) ==
    IF \E i, j \in DOMAIN targets : i # j /\ targets[i] = targets[j]
    THEN IF allow_duplicates
         THEN [status |-> "ok", deleted |-> Range(targets)]
         ELSE [status |-> "error", deleted |-> {}]
    ELSE [status |-> "ok", deleted |-> Range(targets)]

PlanUpdate(op) ==
    IF RejectsAtBind(op)
    THEN PlanResult("error", "BinderException",
                    IF op.return_chunk
                    THEN "RETURNING clause not yet supported for updates of a DuckLake table"
                    ELSE "SET DEFAULT is not yet supported for updates of a DuckLake table",
                    <<>>, FALSE, <<>>)
    ELSE LET planned == <<"PlanCopyForInsert", "PlanDelete", "PlanInsert">>
             expressions == OrderedExpressions(op)
             partition == PartitionExpressions(op, expressions)
         IN IF \E f \in 1 .. Len(partition) : partition[f] = NotImplemented
            THEN PlanResult("error", "NotImplementedException",
                            "Unsupported partition transform type in GetPartitionExpressionForUpdate",
                            planned, UpdateAllowDuplicates, <<>>)
            ELSE PlanResult("ok", "", "", Append(planned, "DuckLakeUpdate"),
                            UpdateAllowDuplicates, expressions \o partition)

RECURSIVE ColumnOrders(_)
\* the sequences listing every element of the finite set S once
ColumnOrders(S) ==
    IF S = {} THEN {<<>>}
    ELSE UNION {{<<x>> \o p : p \in ColumnOrders(S \ {x})} : x \in S}

PartitionFields(n) ==
    [partition_key_index : 0 .. (n - 1), transform : TransformTypes \cup {UnknownTransform}]

\* The LogicalUpdate handed to PlanUpdate: after BindUpdateConstraints its
\* columns list every physical column once; expression j belongs to columns[j].
LogicalUpdates(n) ==
    { [return_chunk |-> rc, columns |-> cols, expressions |-> exprs, partition_fields |-> pf] :
        rc \in BOOLEAN,
        cols \in ColumnOrders(0 .. (n - 1)),
        exprs \in { [j \in 1 .. n |-> IF j \in D THEN ValueDefault
                                      ELSE BoundReferenceExpression(j - 1)] :
                    D \in SUBSET (1 .. n) },
        pf \in UNION {[1 .. k -> PartitionFields(n)] : k \in 0 .. MaxPartitionFields} }

NotBound == [table_columns |-> 0, before |-> <<>>, after |-> <<>>]

\* no Sink call was made on the planned operator yet
NotSunk == [chunk |-> <<>>, insert_chunk |-> <<>>, delete_chunk |-> <<>>]

NoPlanOp == [return_chunk |-> FALSE, columns |-> <<>>, expressions |-> <<>>,
             partition_fields |-> <<>>]
NotPlanned == PlanResult("none", "", "", <<>>, FALSE, <<>>)

Plan ==
    /\ entry = "plan"
    /\ plan = NotPlanned /\ bound = NotBound
    /\ \E n \in 1 .. MaxColumns : \E op \in LogicalUpdates(n) :
          /\ plan_op' = op
          /\ plan' = PlanUpdate(op)
    /\ UNCHANGED <<entry, plan_sunk, bound, cleanup_vars, update_vars, registry_vars, types_vars>>

\* line 25: row_id_index = columns.size()
RowIdIndex(columns) == Len(columns)

\* DuckLakeUpdate::Sink (lines 88-114) on the operator PlanUpdate made: one
\* chunk of the child plan is turned into the insert chunk and the delete chunk
SinkPlanned ==
    /\ entry = "plan"
    /\ plan.status = "ok"
    /\ plan_sunk = NotSunk
    /\ \E first \in 1 .. MaxRows, n \in 1 .. MaxChunk :
          LET chunk == [i \in 1 .. n |-> ChildRow(Len(plan_op.columns), first + i - 1)]
          IN plan_sunk' =
                 [chunk |-> chunk,
                  insert_chunk |->
                      InsertChunkOf(plan.expressions, RowIdIndex(plan_op.columns), chunk),
                  delete_chunk |-> DeleteChunkOf(Len(plan_op.columns) + 4, chunk)]
    /\ UNCHANGED <<entry, plan_op, plan, bound, cleanup_vars, update_vars, registry_vars, types_vars>>

-----------------------------------------------------------------------------
(* DuckLakeTableEntry::BindUpdateConstraints *)

\* BoundColumnRefExpression(type, ColumnBinding(table_index, column_index))
BoundColumnRefExpression(table, column_index) ==
    [type |-> "BOUND_COLUMN_REF", table |-> table, column_index |-> column_index]

\* the value a SET clause assigns: the j-th expression of the projection
SetExpression(j) == BoundColumnRefExpression("proj", j - 1)
\* what the projection computes for the j-th SET clause
SetValue(j) == [type |-> "SET_VALUE", table |-> "", column_index |-> j]

\* the statement BindUpdateConstraints works on: update.columns and
\* update.expressions, proj.expressions, and the column ids of the scan
Statement(columns, expressions, proj_expressions, column_ids, update_is_del_and_insert) ==
    [columns |-> columns, expressions |-> expressions, proj_expressions |-> proj_expressions,
     column_ids |-> column_ids, update_is_del_and_insert |-> update_is_del_and_insert]

\* faulty variant: the update set is not searched
AlreadyUpdatedNever(columns, physical_index) == FALSE

\* lines 312-318: the column is in update.columns
AlreadyUpdated(columns, physical_index) ==
    \E j \in 1 .. Len(columns) : columns[j] = physical_index

\* lines 324-330: the first position of the column in the scan's column ids
ColumnIdIndex(column_ids, physical_index) ==
    LET hits == {i \in 1 .. Len(column_ids) : column_ids[i] = physical_index}
    IN IF hits = {} THEN Absent ELSE <<(CHOOSE i \in hits : \A k \in hits : i <= k) - 1>>

\* lines 310-343: the body of the loop for one physical column
BindColumn(st, physical_index) ==
    IF AlreadyUpdated(st.columns, physical_index) THEN st
    ELSE LET projected == ColumnIdIndex(st.column_ids, physical_index)
             column_id_index == IF Present(projected) THEN projected[1] ELSE Len(st.column_ids)
             added == IF Present(projected) THEN st.column_ids
                      ELSE Append(st.column_ids, physical_index)
         IN Statement(Append(st.columns, physical_index),
                      Append(st.expressions,
                             BoundColumnRefExpression("proj", Len(st.proj_expressions))),
                      Append(st.proj_expressions,
                             BoundColumnRefExpression("get", column_id_index)),
                      Append(added, physical_index),
                      st.update_is_del_and_insert)

RECURSIVE BindColumns(_, _, _)
\* line 310: for (auto &column : columns.Physical()), from physical column next on
BindColumns(st, next, n) ==
    IF next >= n THEN st ELSE BindColumns(BindColumn(st, next), next + 1, n)

\* lines 301-344, for a table of n physical columns
BindUpdateConstraints(st, n) ==
    BindColumns([st EXCEPT !.update_is_del_and_insert = TRUE], 0, n)

\* The statements the binder hands over for a table of n physical columns:
\* every SET list over distinct columns with its expressions and projection,
\* and a scan that reads any of the columns, in any order
BoundStatements(n) ==
    {Statement(cols, [j \in 1 .. Len(cols) |-> SetExpression(j)],
               [j \in 1 .. Len(cols) |-> SetValue(j)], ids, FALSE) :
        cols \in UNION {ColumnOrders(S) : S \in (SUBSET (0 .. (n - 1))) \ {{}}},
        ids \in UNION {ColumnOrders(S) : S \in SUBSET (0 .. (n - 1))}}

BindUpdate ==
    /\ entry = "plan"
    /\ plan = NotPlanned /\ bound = NotBound
    /\ \E n \in 1 .. MaxColumns : \E st \in BoundStatements(n) :
          bound' = [table_columns |-> n, before |-> st, after |-> BindUpdateConstraints(st, n)]
    /\ UNCHANGED <<entry, plan_op, plan, plan_sunk, cleanup_vars, update_vars, registry_vars,
                   types_vars>>

NextPlan == Plan \/ SinkPlanned \/ BindUpdate

(***************************************************************************)
(* DuckLakeDeleteMap: the per-write map of file name -> extended file      *)
(* entry (file_map) and file name -> delete data (delete_data_map).        *)
(***************************************************************************)
MaxRegistryCalls == 3
MaxFileIds == 2

RegistryFiles == {"data_0.parquet", "data_1.parquet"}
FileIds == 1 .. MaxFileIds

\* the methods that take lock_guard<mutex> before touching delete_data_map
LockedOps == {"GetDeleteData", "ClearDeletes", "AddDeleteData"}
\* the methods that touch file_map without taking the mutex
UnlockedOps == {"AddExtendedFileInfo", "GetExtendedFileInfo"}

\* the delete data thread t passes to AddDeleteData: its own row id
DeleteDataOf(t) == {t}

RegistryCall(pc, op, file, file_id, status, found_id, found_rows) ==
    [pc |-> pc, op |-> op, file |-> file, file_id |-> file_id, status |-> status,
     found_id |-> found_id, found_rows |-> found_rows]

NoRegistryCall == RegistryCall("idle", "", "", 0, "", 0, Absent)

\* faulty variant: a second entry for the same file replaces the first
FileMapEmplaceOverwriting(map, filename, file_id) ==
    [map EXCEPT ![filename] = file_id]

\* line 150: file_map.emplace(filename, file_entry) inserts only when the key is new
FileMapEmplace(map, filename, file_id) ==
    IF map[filename] # 0 THEN map ELSE [map EXCEPT ![filename] = file_id]

\* faulty variant: the rows are united with the delete data already held
DeleteDataEmplaceMerging(map, filename, rows) ==
    IF map[filename] # Absent
    THEN [map EXCEPT ![filename] = <<map[filename][1] \cup rows>>]
    ELSE [map EXCEPT ![filename] = <<rows>>]

\* faulty variant: the delete data given last replaces what the file had
DeleteDataEmplaceReplacing(map, filename, rows) ==
    [map EXCEPT ![filename] = <<rows>>]

\* line 177: delete_data_map.emplace(filename, delete_data) inserts only when the key is new
DeleteDataEmplace(map, filename, rows) ==
    IF map[filename] # Absent THEN map ELSE [map EXCEPT ![filename] = <<rows>>]

\* lines 162, 171, 176: lock_guard<mutex> guard(lock) at the head of a method;
\* the thread then is inside the method holding the mutex
LockGuard(t) ==
    /\ t \in active
    /\ rstate[t].pc = "idle"
    /\ mutex = 0
    /\ rcalls < MaxRegistryCalls
    /\ \E op \in LockedOps, f \in RegistryFiles :
          rstate' = [rstate EXCEPT ![t] = RegistryCall("locked", op, f, 0, "", 0, Absent)]
    /\ mutex' = t
    /\ rcalls' = rcalls + 1
    /\ UNCHANGED <<active, file_map, delete_data_map, raced, merged, recorded>>
    /\ UNCHANGED <<entry, cleanup_vars, update_vars, plan_vars, types_vars>>

\* lines 161-168; the guard is released on return
GetDeleteData(t) ==
    /\ rstate[t].pc = "locked" /\ rstate[t].op = "GetDeleteData"
    /\ LET entry_found == delete_data_map[rstate[t].file]
       IN rstate' = [rstate EXCEPT ![t] =
              IF entry_found = Absent
              THEN RegistryCall("idle", "GetDeleteData", rstate[t].file, 0, "nullptr", 0, Absent)
              ELSE RegistryCall("idle", "GetDeleteData", rstate[t].file, 0, "ok", 0, entry_found)]
    /\ mutex' = 0
    /\ UNCHANGED <<active, file_map, delete_data_map, rcalls, raced, merged, recorded>>
    /\ UNCHANGED <<entry, cleanup_vars, update_vars, plan_vars, types_vars>>

\* thread u still has the raw pointer GetDeleteData returned for filename
HoldsPointer(u, filename) ==
    /\ rstate[u].pc = "idle" /\ rstate[u].op = "GetDeleteData"
    /\ rstate[u].status = "ok" /\ rstate[u].file = filename

\* lines 170-173: erase drops the map's shared_ptr, the only owner the map
\* knows of, so the DuckLakeDeleteData object is destroyed; raw pointers
\* handed out earlier now point at a destroyed object
ClearDeletes(t) ==
    /\ rstate[t].pc = "locked" /\ rstate[t].op = "ClearDeletes"
    /\ delete_data_map' = [delete_data_map EXCEPT ![rstate[t].file] = Absent]
    /\ merged' = [merged EXCEPT ![rstate[t].file] = {}]
    /\ rstate' = [u \in Threads |->
           IF u = t
           THEN RegistryCall("idle", "ClearDeletes", rstate[t].file, 0, "ok", 0, Absent)
           ELSE IF HoldsPointer(u, rstate[t].file)
           THEN [rstate[u] EXCEPT !.status = "destroyed"]
           ELSE rstate[u]]
    /\ mutex' = 0
    /\ UNCHANGED <<active, file_map, rcalls, raced, recorded>>
    /\ UNCHANGED <<entry, cleanup_vars, update_vars, plan_vars, types_vars>>

\* lines 175-178
AddDeleteData(t) ==
    /\ rstate[t].pc = "locked" /\ rstate[t].op = "AddDeleteData"
    /\ delete_data_map' = DeleteDataEmplace(delete_data_map, rstate[t].file, DeleteDataOf(t))
    /\ merged' = [merged EXCEPT ![rstate[t].file] = @ \cup DeleteDataOf(t)]
    /\ rstate' = [rstate EXCEPT ![t] =
           RegistryCall("idle", "AddDeleteData", rstate[t].file, 0, "ok", 0, Absent)]
    /\ mutex' = 0
    /\ UNCHANGED <<active, file_map, rcalls, raced, recorded>>
    /\ UNCHANGED <<entry, cleanup_vars, update_vars, plan_vars, types_vars>>

\* lines 148, 153: AddExtendedFileInfo and GetExtendedFileInfo start on
\* file_map at once; no lock_guard is taken
EnterUnlocked(t) ==
    /\ t \in active
    /\ rstate[t].pc = "idle"
    /\ rcalls < MaxRegistryCalls
    /\ \E f \in RegistryFiles :
          \/ \E id \in FileIds :
                rstate' = [rstate EXCEPT ![t] =
                    RegistryCall("file_map", "AddExtendedFileInfo", f, id, "", 0, Absent)]
          \/ rstate' = [rstate EXCEPT ![t] =
                 RegistryCall("file_map", "GetExtendedFileInfo", f, 0, "", 0, Absent)]
    /\ rcalls' = rcalls + 1
    /\ UNCHANGED <<active, file_map, delete_data_map, mutex, raced, merged, recorded>>
    /\ UNCHANGED <<entry, cleanup_vars, update_vars, plan_vars, types_vars>>

\* another thread is inside file_map at the same time and one of the two writes
RacesOnFileMap(t) ==
    \E u \in active \ {t} :
        /\ rstate[u].pc = "file_map"
        /\ "AddExtendedFileInfo" \in {rstate[t].op, rstate[u].op}

\* lines 148-151. Overlapping with another unsynchronised access the insert
\* is a data race: it may take effect or be lost.
AddExtendedFileInfo(t) ==
    /\ rstate[t].pc = "file_map" /\ rstate[t].op = "AddExtendedFileInfo"
    /\ LET inserted == FileMapEmplace(file_map, rstate[t].file, rstate[t].file_id)
       IN IF RacesOnFileMap(t)
          THEN file_map' \in {inserted, file_map} /\ raced' = TRUE
          ELSE file_map' = inserted /\ UNCHANGED raced
    /\ recorded' = [recorded EXCEPT ![rstate[t].file] =
           [first |-> IF @.first = 0 THEN rstate[t].file_id ELSE @.first,
            latest |-> rstate[t].file_id]]
    /\ rstate' = [rstate EXCEPT ![t] =
           RegistryCall("idle", "AddExtendedFileInfo", rstate[t].file, 0, "ok", 0, Absent)]
    /\ UNCHANGED <<active, delete_data_map, mutex, rcalls, merged>>
    /\ UNCHANGED <<entry, cleanup_vars, update_vars, plan_vars, types_vars>>

\* what a lookup of filename in map returns or throws
FileMapFind(map, filename) ==
    IF map[filename] = 0
    THEN [status |-> "InternalException", found_id |-> 0]
    ELSE [status |-> "ok", found_id |-> map[filename]]

\* lines 153-159. Overlapping with an unsynchronised insert the lookup is a
\* data race: it may see the entry being inserted or miss it.
GetExtendedFileInfo(t) ==
    /\ rstate[t].pc = "file_map" /\ rstate[t].op = "GetExtendedFileInfo"
    /\ \E seen \in IF RacesOnFileMap(t)
                   THEN {FileMapFind(file_map, rstate[t].file)}
                        \cup {[status |-> "InternalException", found_id |-> 0]}
                        \cup {[status |-> "ok", found_id |-> rstate[u].file_id] :
                                 u \in {v \in active \ {t} :
                                           /\ rstate[v].pc = "file_map"
                                           /\ rstate[v].op = "AddExtendedFileInfo"
                                           /\ rstate[v].file = rstate[t].file}}
                   ELSE {FileMapFind(file_map, rstate[t].file)} :
          rstate' = [rstate EXCEPT ![t] =
              RegistryCall("idle", "GetExtendedFileInfo", rstate[t].file, 0,
                           seen.status, seen.found_id, Absent)]
    /\ raced' = (raced \/ RacesOnFileMap(t))
    /\ UNCHANGED <<active, file_map, delete_data_map, mutex, rcalls, merged, recorded>>
    /\ UNCHANGED <<entry, cleanup_vars, update_vars, plan_vars, types_vars>>

\* The caller of GetDeleteData goes on to read the delete data through the
\* pointer it was given, without the mutex. Reading a destroyed object is
\* undefined: what is read is arbitrary.
UseDeleteData(t) ==
    /\ rstate[t].pc = "idle" /\ rstate[t].op = "GetDeleteData"
    /\ \/ /\ rstate[t].status = "ok"
          /\ rstate' = [rstate EXCEPT ![t] =
                 RegistryCall("idle", "UseDeleteData", rstate[t].file, 0, "ok", 0,
                              rstate[t].found_rows)]
       \/ /\ rstate[t].status = "destroyed"
          /\ \E garbage \in SUBSET Threads :
                rstate' = [rstate EXCEPT ![t] =
                    RegistryCall("idle", "UseDeleteData", rstate[t].file, 0,
                                 "use_after_free", 0, <<garbage>>)]
    /\ UNCHANGED <<active, file_map, delete_data_map, mutex, rcalls, raced, merged, recorded>>
    /\ UNCHANGED <<entry, cleanup_vars, update_vars, plan_vars, types_vars>>

NextRegistry ==
    \E t \in Threads :
        \/ LockGuard(t)
        \/ GetDeleteData(t)
        \/ ClearDeletes(t)
        \/ AddDeleteData(t)
        \/ EnterUnlocked(t)
        \/ AddExtendedFileInfo(t)
        \/ GetExtendedFileInfo(t)
        \/ UseDeleteData(t)

(***************************************************************************)
(* DuckLakeTypes: the codec between LogicalType and the type strings kept  *)
(* in the catalog. A string is the sequence of its characters.             *)
(***************************************************************************)
MaxDecimalWidth == 12

UpperCase == <<"A", "B", "C", "D", "E", "F", "G", "H", "I", "J", "K", "L", "M", "N", "O", "P", "Q", "R", "S", "T", "U", "V", "W", "X", "Y", "Z">>
LowerCase == <<"a", "b", "c", "d", "e", "f", "g", "h", "i", "j", "k", "l", "m", "n", "o", "p", "q", "r", "s", "t", "u", "v", "w", "x", "y", "z">>
Digits == <<"0", "1", "2", "3", "4", "5", "6", "7", "8", "9">>

IndexOf(seq, c) == CHOOSE i \in DOMAIN seq : seq[i] = c

ToLowerChar(c) == IF c \in Range(UpperCase) THEN LowerCase[IndexOf(UpperCase, c)] ELSE c
ToUpperChar(c) == IF c \in Range(LowerCase) THEN UpperCase[IndexOf(LowerCase, c)] ELSE c
Lower(str) == [i \in DOMAIN str |-> ToLowerChar(str[i])]
Upper(str) == [i \in DOMAIN str |-> ToUpperChar(str[i])]

\* StringUtil::CIEquals
CIEquals(l, r) == Len(l) = Len(r) /\ \A i \in DOMAIN l : ToLowerChar(l[i]) = ToLowerChar(r[i])

\* StringUtil::StartsWith and StringUtil::EndsWith compare the characters as they are
StartsWith(str, prefix) ==
    Len(str) >= Len(prefix) /\ SubSeq(str, 1, Len(prefix)) = prefix

EndsWith(str, suffix) ==
    Len(str) >= Len(suffix) /\ SubSeq(str, Len(str) - Len(suffix) + 1, Len(str)) = suffix

\* std::string::substr(pos, count)
Substr(str, pos, count) == SubSeq(str, pos + 1, Min(pos + count, Len(str)))

\* std::to_string of an unsigned number
RECURSIVE to_string(_)
to_string(n) ==
    IF n < Len(Digits) THEN <<Digits[n + 1]>>
    ELSE to_string(n \div Len(Digits)) \o <<Digits[(n % Len(Digits)) + 1]>>

RECURSIVE DigitsValue(_)
DigitsValue(str) ==
    IF str = <<>> THEN 0
    ELSE DigitsValue(SubSeq(str, 1, Len(str) - 1)) * Len(Digits)
         + (IndexOf(Digits, str[Len(str)]) - 1)

RECURSIVE SkipSpaces(_)
SkipSpaces(str) ==
    IF str # <<>> /\ Head(str) = " " THEN SkipSpaces(Tail(str)) ELSE str

RECURSIVE DigitPrefix(_)
DigitPrefix(str) ==
    IF str # <<>> /\ Head(str) \in Range(Digits)
    THEN <<Head(str)>> \o DigitPrefix(Tail(str))
    ELSE <<>>

\* std::stoull: leading white space and one sign are skipped, the longest run
\* of digits is converted and whatever follows is ignored; without a digit
\* it throws std::invalid_argument. A minus sign negates in unsigned arithmetic.
stoull(str) ==
    LET unspaced == SkipSpaces(str)
        negative == unspaced # <<>> /\ Head(unspaced) = "-"
        unsigned == IF unspaced # <<>> /\ Head(unspaced) \in {"+", "-"}
                    THEN Tail(unspaced) ELSE unspaced
        digits == DigitPrefix(unsigned)
    IN IF digits = <<>>
       THEN [status |-> "std::invalid_argument", value |-> 0, negative |-> FALSE]
       ELSE [status |-> "ok", value |-> DigitsValue(digits), negative |-> negative]

\* the implicit conversion of the unsigned long long to the uint8_t
\* parameters of LogicalType::DECIMAL
UINT8_RANGE == 256
NarrowToUint8(number) ==
    IF number.negative
    THEN (UINT8_RANGE - (number.value % UINT8_RANGE)) % UINT8_RANGE
    ELSE number.value % UINT8_RANGE

\* StringUtil::SplitWithParentheses(str): split at the commas outside
\* parentheses; a last part that is empty is dropped
RECURSIVE SplitScan(_, _, _, _, _)
SplitScan(str, i, depth, current, result) ==
    IF i > Len(str)
    THEN IF depth # 0
         THEN [status |-> "InvalidInputException", parts |-> <<>>]
         ELSE [status |-> "ok",
               parts |-> IF current = <<>> THEN result ELSE Append(result, current)]
    ELSE LET c == str[i]
             opened == IF c = "(" THEN depth + 1 ELSE depth
         IN IF c = ")" /\ opened = 0
            THEN [status |-> "InvalidInputException", parts |-> <<>>]
            ELSE LET inside == IF c = ")" THEN opened - 1 ELSE opened
                 IN IF inside = 0 /\ c = ","
                    THEN SplitScan(str, i + 1, inside, <<>>, Append(result, current))
                    ELSE SplitScan(str, i + 1, inside, Append(current, c), result)

SplitWithParentheses(str) == SplitScan(str, 1, 0, <<>>, <<>>)

\* ---- LogicalType
LogicalType(id, alias, width, scale, collation) ==
    [id |-> id, alias |-> alias, width |-> width, scale |-> scale, collation |-> collation]

BaseType(id) == LogicalType(id, "", 0, 0, "")
DECIMAL(width, scale) == LogicalType("DECIMAL", "", width, scale, "")
JSON == LogicalType("VARCHAR", "JSON", 0, 0, "")
GEOMETRY == LogicalType("BLOB", "GEOMETRY", 0, 0, "")
NoType == LogicalType("INVALID", "", 0, 0, "")

HasAlias(type) == type.alias # ""
IsJSONType(type) == type.id = "VARCHAR" /\ type.alias = "JSON"

\* lines 17-43
DUCKLAKE_TYPES == <<
    [name |-> <<"b", "o", "o", "l", "e", "a", "n">>, id |-> "BOOLEAN"],
    [name |-> <<"i", "n", "t", "8">>, id |-> "TINYINT"],
    [name |-> <<"i", "n", "t", "1", "6">>, id |-> "SMALLINT"],
    [name |-> <<"i", "n", "t", "3", "2">>, id |-> "INTEGER"],
    [name |-> <<"i", "n", "t", "6", "4">>, id |-> "BIGINT"],
    [name |-> <<"i", "n", "t", "1", "2", "8">>, id |-> "HUGEINT"],
    [name |-> <<"u", "i", "n", "t", "8">>, id |-> "UTINYINT"],
    [name |-> <<"u", "i", "n", "t", "1", "6">>, id |-> "USMALLINT"],
    [name |-> <<"u", "i", "n", "t", "3", "2">>, id |-> "UINTEGER"],
    [name |-> <<"u", "i", "n", "t", "6", "4">>, id |-> "UBIGINT"],
    [name |-> <<"u", "i", "n", "t", "1", "2", "8">>, id |-> "UHUGEINT"],
    [name |-> <<"f", "l", "o", "a", "t", "3", "2">>, id |-> "FLOAT"],
    [name |-> <<"f", "l", "o", "a", "t", "6", "4">>, id |-> "DOUBLE"],
    [name |-> <<"d", "e", "c", "i", "m", "a", "l">>, id |-> "DECIMAL"],
    [name |-> <<"t", "i", "m", "e">>, id |-> "TIME"],
    [name |-> <<"d", "a", "t", "e">>, id |-> "DATE"],
    [name |-> <<"t", "i", "m", "e", "s", "t", "a", "m", "p">>, id |-> "TIMESTAMP"],
    [name |-> <<"t", "i", "m", "e", "s", "t", "a", "m", "p", "_", "u", "s">>, id |-> "TIMESTAMP"],
    [name |-> <<"t", "i", "m", "e", "s", "t", "a", "m", "p", "_", "m", "s">>, id |-> "TIMESTAMP_MS"],
    [name |-> <<"t", "i", "m", "e", "s", "t", "a", "m", "p", "_", "n", "s">>, id |-> "TIMESTAMP_NS"],
    [name |-> <<"t", "i", "m", "e", "s", "t", "a", "m", "p", "_", "s">>, id |-> "TIMESTAMP_SEC"],
    [name |-> <<"t", "i", "m", "e", "s", "t", "a", "m", "p", "t", "z">>, id |-> "TIMESTAMP_TZ"],
    [name |-> <<"t", "i", "m", "e", "t", "z">>, id |-> "TIME_TZ"],
    [name |-> <<"i", "n", "t", "e", "r", "v", "a", "l">>, id |-> "INTERVAL"],
    [name |-> <<"v", "a", "r", "c", "h", "a", "r">>, id |-> "VARCHAR"],
    [name |-> <<"b", "l", "o", "b">>, id |-> "BLOB"],
    [name |-> <<"u", "u", "i", "d">>, id |-> "UUID"] >>

JsonName == <<"j", "s", "o", "n">>
GeometryName == <<"g", "e", "o", "m", "e", "t", "r", "y">>
DecimalPrefix == <<"d", "e", "c", "i", "m", "a", "l", "(">>
StructName == <<"s", "t", "r", "u", "c", "t">>
ListName == <<"l", "i", "s", "t">>
MapName == <<"m", "a", "p">>

Decoded(type) == [status |-> "ok", error |-> "", message |-> "", type |-> type]
DecodeError(error, message) ==
    [status |-> "error", error |-> error, message |-> message, type |-> NoType]

Encoded(token) == [status |-> "ok", error |-> "", message |-> "", token |-> token]
EncodeError(error, message) ==
    [status |-> "error", error |-> error, message |-> message, token |-> <<>>]

\* lines 45-63
ParseBaseType(str) ==
    LET hits == {i \in DOMAIN DUCKLAKE_TYPES : CIEquals(str, DUCKLAKE_TYPES[i].name)}
    IN IF hits # {}
       THEN Decoded(BaseType(DUCKLAKE_TYPES[CHOOSE i \in hits : \A j \in hits : i <= j].id))
       ELSE IF CIEquals(str, JsonName) THEN Decoded(JSON)
       ELSE IF CIEquals(str, GeometryName) THEN Decoded(GEOMETRY)
       ELSE DecodeError("InvalidInputException",
                        "Failed to parse DuckLake type - unsupported type")

\* lines 65-72
ToStringBaseType(type) ==
    LET hits == {i \in DOMAIN DUCKLAKE_TYPES : DUCKLAKE_TYPES[i].id = type.id}
    IN IF hits # {}
       THEN Encoded(DUCKLAKE_TYPES[CHOOSE i \in hits : \A j \in hits : i <= j].name)
       ELSE EncodeError("InvalidInputException",
                        "Failed to convert DuckDB type to DuckLake - unsupported type")

\* lines 74-87
FromString(str) ==
    IF StartsWith(str, DecimalPrefix) /\ EndsWith(str, <<")">>)
    THEN LET decimal_spec == Substr(str, Len(DecimalPrefix), Len(str) - (Len(DecimalPrefix) + 1))
             members == SplitWithParentheses(decimal_spec)
         IN IF members.status # "ok"
            THEN DecodeError(members.status, "Incongruent parentheses in string")
            ELSE IF Len(members.parts) # 2
            THEN DecodeError("NotImplementedException",
                             "Invalid DECIMAL type - expected width and scale")
            ELSE LET width == stoull(members.parts[1])
                     scale == stoull(members.parts[2])
                 IN IF width.status # "ok" THEN DecodeError(width.status, "stoull")
                    ELSE IF scale.status # "ok" THEN DecodeError(scale.status, "stoull")
                    ELSE Decoded(DECIMAL(NarrowToUint8(width), NarrowToUint8(scale)))
    ELSE ParseBaseType(str)

\* faulty variant: width and scale are written in the wrong order
DecimalToStringSwapped(type) ==
    Encoded(DecimalPrefix \o to_string(type.scale) \o <<",">> \o to_string(type.width) \o <<")">>)

\* lines 106-107
DecimalToString(type) ==
    Encoded(DecimalPrefix \o to_string(type.width) \o <<",">> \o to_string(type.scale) \o <<")">>)

\* faulty variant: the collation is not looked at
VarcharToStringAnyCollation(type) == ToStringBaseType(type)

\* lines 108-112
VarcharToString(type) ==
    IF type.collation # ""
    THEN EncodeError("InvalidInputException", "Collations are not supported in DuckLake storage")
    ELSE ToStringBaseType(type)

\* lines 89-116
TypeToString(type) ==
    IF HasAlias(type)
    THEN IF IsJSONType(type) THEN Encoded(JsonName)
         ELSE IF type.alias = "GEOMETRY" /\ type.id = "BLOB" THEN Encoded(GeometryName)
         ELSE EncodeError("InvalidInputException", "Unsupported user-defined type")
    ELSE CASE type.id = "STRUCT" -> Encoded(StructName)
           [] type.id = "LIST" -> Encoded(ListName)
           [] type.id = "MAP" -> Encoded(MapName)
           [] type.id = "DECIMAL" -> DecimalToString(type)
           [] type.id = "VARCHAR" -> VarcharToString(type)
           [] OTHER -> ToStringBaseType(type)

\* ---- the types and the strings the codec is applied to
TableIds == {DUCKLAKE_TYPES[i].id : i \in DOMAIN DUCKLAKE_TYPES}
NestedIds == {"STRUCT", "LIST", "MAP"}
OtherIds == {"ENUM", "ARRAY", "UNION", "BIT"}
Aliases == {"JSON", "GEOMETRY", "POINT"}
Collations == {"", "nocase"}

\* decimals of every width up to the bound, with every scale the width allows
DecimalTypes ==
    {DECIMAL(p[1], p[2]) :
        p \in {q \in (1 .. MaxDecimalWidth) \X (0 .. MaxDecimalWidth) : q[2] <= q[1]}}

\* types without alias; only VARCHAR carries a collation
PlainTypes ==
    {BaseType(id) : id \in (TableIds \ {"DECIMAL"}) \cup NestedIds \cup OtherIds}
    \cup {LogicalType("VARCHAR", "", 0, 0, c) : c \in Collations}
    \cup DecimalTypes

\* a type under an alias (JSON, GEOMETRY and user-defined types)
AliasedTypes ==
    {[t EXCEPT !.alias = a] : t \in {p \in PlainTypes : p.collation = "" /\ p.width <= 2},
                             a \in Aliases}

TypeUniverse == PlainTypes \cup AliasedTypes

Capitalised(str) == IF str = <<>> THEN str ELSE <<ToUpperChar(Head(str))>> \o Tail(str)
CaseVariants(str) == {str, Lower(str), Upper(str), Capitalised(str)}

VocabularyNames == {DUCKLAKE_TYPES[i].name : i \in DOMAIN DUCKLAKE_TYPES} \cup {JsonName, GeometryName}

DecimalTokens ==
    {DecimalPrefix \o to_string(p[1]) \o <<",">> \o to_string(p[2]) \o <<")">> :
        p \in {<<10, 2>>, <<1, 0>>, <<38, 10>>}}

\* strings of the decimal( ... ) form that are not a width and a scale
MalformedDecimalTokens == {
    <<"d", "e", "c", "i", "m", "a", "l", "(", "1", "0", ")">>,
    <<"d", "e", "c", "i", "m", "a", "l", "(", "a", ",", "b", ")">>,
    <<"d", "e", "c", "i", "m", "a", "l", "(", ")">>,
    <<"d", "e", "c", "i", "m", "a", "l", "(", "1", "0", ",", "2", ",", "3", ")">>,
    <<"d", "e", "c", "i", "m", "a", "l", "(", "1", "0", ",", "2", "x", ")">>,
    <<"d", "e", "c", "i", "m", "a", "l", "(", "1", "0", ",", ")">>,
    <<"d", "e", "c", "i", "m", "a", "l", "(", ",", "2", ")">>,
    <<"d", "e", "c", "i", "m", "a", "l", "(", " ", "1", "0", ",", "2", ")">>,
    <<"d", "e", "c", "i", "m", "a", "l", "(", "1", "0", ",", "2">>,
    <<"d", "e", "c", "i", "m", "a", "l", "(", "-", "1", ",", "2", ")">>,
    <<"d", "e", "c", "i", "m", "a", "l", "(", "(", "1", "0", ",", "2", ")">> }

OtherTokens == {
    <<>>,
    <<"i", "n", "t">>,
    <<"i", "n", "t", "e", "g", "e", "r">>,
    <<"s", "t", "r", "i", "n", "g">>,
    <<"v", "a", "r", "c", "h", "a", "r", "(", "1", "0", ")">>,
    <<"s", "t", "r", "u", "c", "t">>,
    <<"l", "i", "s", "t">>,
    <<"m", "a", "p">>,
    <<"e", "n", "u", "m">>,
    <<"t", "i", "m", "e", "s", "t", "a", "m", "p", "_", "t", "z">>,
    <<"d", "e", "c", "i", "m", "a", "l", "(", "1", "0", ",", "2", ")", " ">> }

TokenUniverse ==
    UNION {CaseVariants(str) :
              str \in VocabularyNames \cup DecimalTokens \cup MalformedDecimalTokens \cup OtherTokens}

NotChecked == [type |-> NoType, status |-> "none", error |-> "", message |-> ""]
NotEncoded == [status |-> "none", error |-> "", message |-> "", token |-> <<>>]
NotDecoded == [status |-> "none", error |-> "", message |-> "", type |-> NoType]

\* DuckLakeTypes::ToString applied to a column type
CallToString ==
    /\ ty_type = NoType /\ ty_token = Absent /\ ty_checked = NotChecked
    /\ \E type \in TypeUniverse :
          /\ ty_type' = type
          /\ ty_encoded' = TypeToString(type)
    /\ UNCHANGED <<ty_token, ty_decoded, ty_checked>>
    /\ UNCHANGED <<entry, cleanup_vars, update_vars, plan_vars, registry_vars>>

\* DuckLakeTypes::FromString applied to the string ToString produced
FromStringOfToString ==
    /\ ty_encoded.status = "ok" /\ ty_token = Absent
    /\ ty_token' = <<ty_encoded.token>>
    /\ ty_decoded' = FromString(ty_encoded.token)
    /\ UNCHANGED <<ty_type, ty_encoded, ty_checked>>
    /\ UNCHANGED <<entry, cleanup_vars, update_vars, plan_vars, registry_vars>>

\* DuckLakeTypes::FromString applied to a string read from the catalog
CallFromString ==
    /\ ty_type = NoType /\ ty_token = Absent /\ ty_checked = NotChecked
    /\ \E str \in TokenUniverse :
          /\ ty_token' = <<str>>
          /\ ty_decoded' = FromString(str)
    /\ UNCHANGED <<ty_type, ty_encoded, ty_checked>>
    /\ UNCHANGED <<entry, cleanup_vars, update_vars, plan_vars, registry_vars>>

\* ---- nested types
\* depth of the type trees CheckSupportedType is applied to
MaxTypeDepth == 2

\* LogicalType::STRUCT(children), LogicalType::LIST(child), LogicalType::MAP(key, value):
\* a new type without alias over the child types
NestedType(id, children) ==
    [id |-> id, alias |-> "", width |-> 0, scale |-> 0, collation |-> "",
     children |-> children]

SetAlias(type, alias) == [type EXCEPT !.alias = alias]

\* a supported type and one type for each reason ToString has to refuse
LeafTypes ==
    {BaseType("INTEGER"), BaseType("ENUM"), LogicalType("VARCHAR", "", 0, 0, "nocase"),
     LogicalType("INTEGER", "POINT", 0, 0, "")}

RECURSIVE TypeTrees(_)
\* the types of at most the given depth: structs of one or two fields, lists
\* and maps over the types one level less deep, each also as a user-defined
\* type (CREATE TYPE ... AS STRUCT ...)
TypeTrees(depth) ==
    IF depth <= 1 THEN LeafTypes
    ELSE LET below == TypeTrees(depth - 1)
             nested == {NestedType("STRUCT", <<a>>) : a \in below}
                           \cup {NestedType("STRUCT", <<a, b>>) : a \in below, b \in below}
                           \cup {NestedType("LIST", <<a>>) : a \in below}
                           \cup {NestedType("MAP", <<a, b>>) : a \in below, b \in below}
         IN below \cup nested \cup {SetAlias(t, "POINT") : t \in nested}

Visited(type) == [status |-> "ok", error |-> "", message |-> "", type |-> type]
VisitThrew(encoded) ==
    [status |-> "error", error |-> encoded.error, message |-> encoded.message, type |-> NoType]

\* lines 119-122: the callback encodes the type it is given, drops the string
\* and returns the type; what ToString throws leaves the visitor
CheckCallback(type) ==
    LET encoded == TypeToString(type)
    IN IF encoded.status = "error" THEN VisitThrew(encoded) ELSE Visited(type)

\* two visits one after the other: the second is not made when the first threw
VisitThen(firsts, seconds) ==
    {IF a.status = "error" THEN a
     ELSE IF b.status = "error" THEN b
     ELSE Visited(<<a.type>> \o b.type) : a \in firsts, b \in seconds}

RECURSIVE VisitReplace(_)
RECURSIVE VisitChildren(_)
\* the child types of a struct, visited in field order
VisitChildren(children) ==
    IF children = <<>> THEN {Visited(<<>>)}
    ELSE VisitThen(VisitReplace(Head(children)), VisitChildren(Tail(children)))

\* TypeVisitor::VisitReplace(type, callback) (duckdb/common/type_visitor.hpp)
\* as called in line 119: for a STRUCT, LIST or MAP the children are visited
\* first, the type is built anew from what the visits returned, and the
\* callback is applied to the new type; for any other type the callback is
\* applied to the type itself. The key and the value of a MAP are visited
\* inside the argument list of LogicalType::MAP(...), whose order of
\* evaluation the language leaves open. The outcomes the call can have:
VisitReplace(type) ==
    LET rebuilt(id, visits) ==
            {IF v.status = "error" THEN v ELSE CheckCallback(NestedType(id, v.type)) :
                v \in visits}
    IN CASE type.id \in {"STRUCT", "LIST"} -> rebuilt(type.id, VisitChildren(type.children))
         [] type.id = "MAP" ->
                rebuilt("MAP", VisitChildren(type.children))
                    \cup rebuilt("MAP",
                                 {IF v.status = "error" THEN v
                                  ELSE Visited(<<v.type[2], v.type[1]>>) :
                                     v \in VisitChildren(<<type.children[2], type.children[1]>>)})
         [] OTHER -> {CheckCallback(type)}

\* lines 118-123: the type VisitReplace returns is dropped
CheckSupportedType(type) ==
    {[type |-> type, status |-> r.status, error |-> r.error, message |-> r.message] :
        r \in VisitReplace(type)}

\* DuckLakeTypes::CheckSupportedType applied to a column type
CallCheckSupportedType ==
    /\ ty_type = NoType /\ ty_token = Absent /\ ty_checked = NotChecked
    /\ \E type \in TypeTrees(MaxTypeDepth) : ty_checked' \in CheckSupportedType(type)
    /\ UNCHANGED <<ty_type, ty_encoded, ty_token, ty_decoded>>
    /\ UNCHANGED <<entry, cleanup_vars, update_vars, plan_vars, registry_vars>>

NextTypes == CallToString \/ FromStringOfToString \/ CallFromString \/ CallCheckSupportedType

-----------------------------------------------------------------------------
(* Initial states and specifications *)

CleanupIdle ==
    /\ fs = {} /\ scheduled = {} /\ config = ""
    /\ call = NoCall /\ bind_data = Unbound
    /\ offset = 0 /\ executed = FALSE /\ calls = 0 /\ log = <<>> /\ output = <<>>

UpdateIdle ==
    /\ next_row = 1
    /\ lstate = [t \in Threads |-> [pc |-> "sink", updated_count |-> 0]]
    /\ total_updated_count = 0
    /\ copy_sunk = <<>> /\ delete_sunk = <<>>
    /\ upc = "sink" /\ trace = <<>> /\ produced = <<>> /\ insert_sunk = <<>>
    /\ result_chunk = <<>>

PlanIdle == plan_op = NoPlanOp /\ plan = NotPlanned /\ plan_sunk = NotSunk /\ bound = NotBound

RegistryEmpty ==
    /\ file_map = [f \in RegistryFiles |-> 0]
    /\ delete_data_map = [f \in RegistryFiles |-> Absent]
    /\ mutex = 0
    /\ rstate = [t \in Threads |-> NoRegistryCall]
    /\ rcalls = 0
    /\ raced = FALSE
    /\ merged = [f \in RegistryFiles |-> {}]
    /\ recorded = [f \in RegistryFiles |-> [first |-> 0, latest |-> 0]]

RegistryIdle == active = {} /\ RegistryEmpty

TypesIdle ==
    /\ ty_type = NoType /\ ty_encoded = NotEncoded
    /\ ty_token = Absent /\ ty_decoded = NotDecoded
    /\ ty_checked = NotChecked

InitCleanup ==
    /\ entry = "cleanup"
    /\ fs \in SUBSET Paths
    /\ scheduled \in SUBSET Paths
    /\ config \in IntervalOptions
    /\ call = NoCall /\ bind_data = Unbound
    /\ offset = 0 /\ executed = FALSE /\ calls = 0 /\ log = <<>> /\ output = <<>>
    /\ UpdateIdle /\ PlanIdle /\ RegistryIdle /\ TypesIdle

InitUpdate == entry = "update" /\ CleanupIdle /\ UpdateIdle /\ PlanIdle /\ RegistryIdle /\ TypesIdle

InitPlan == entry = "plan" /\ CleanupIdle /\ UpdateIdle /\ PlanIdle /\ RegistryIdle /\ TypesIdle

\* the map shared by every thread of a write
InitRegistry ==
    /\ entry = "registry"
    /\ CleanupIdle /\ UpdateIdle /\ PlanIdle /\ TypesIdle
    /\ active = Threads /\ RegistryEmpty

\* the map used by one thread only: its calls form a sequence
InitArtifacts ==
    /\ entry = "artifacts"
    /\ CleanupIdle /\ UpdateIdle /\ PlanIdle /\ TypesIdle
    /\ active = {1} /\ RegistryEmpty

InitTypes ==
    /\ entry = "types"
    /\ CleanupIdle /\ UpdateIdle /\ PlanIdle /\ RegistryIdle /\ TypesIdle

Init == InitCleanup \/ InitUpdate \/ InitPlan \/ InitRegistry \/ InitArtifacts \/ InitTypes

Next == NextCleanup \/ NextUpdate \/ NextPlan \/ NextRegistry \/ NextTypes

Spec == Init /\ [][Next]_vars

SpecCleanup == InitCleanup /\ [][NextCleanup]_vars

SpecUpdate == InitUpdate /\ [][NextUpdate]_vars

SpecPlan == InitPlan /\ [][NextPlan]_vars

SpecRegistry == InitRegistry /\ [][NextRegistry]_vars

SpecArtifacts == InitArtifacts /\ [][NextRegistry]_vars

SpecTypes == InitTypes /\ [][NextTypes]_vars

-----------------------------------------------------------------------------
(* Properties of the cleanup functions (checked under SpecCleanup) *)

Bound == bind_data.status = "ok"

\* the paths emitted so far, over all DuckLakeCleanupExecute calls
Emitted == Flatten(output)

CatalogRemovalLogged ==
    \E i \in DOMAIN log : log[i].op = "RemoveFilesScheduledForCleanup"

DryRunBound == Bound /\ call.named_parameters.dry_run = <<TRUE>>

\* C1: a cleanup of either kind bound with dry_run=true never removes a file
\* and never removes a catalog row, whatever the number of Execute calls, and
\* the calls emit the candidate list: after k calls the first
\* min(|files|, k * STANDARD_VECTOR_SIZE) candidate paths have been emitted.
C1_DryRunNoOp ==
    /\ [](DryRunBound =>
            /\ log = <<>>
            /\ Emitted = SubSeq(bind_data.files, 1,
                                Min(Len(bind_data.files), calls * STANDARD_VECTOR_SIZE)))
    /\ [][DryRunBound => (fs' = fs /\ scheduled' = scheduled)]_vars

\* C1 witness: a dry run of several batches over candidates that exist on
\* storage has emitted its whole candidate list.
C1_Witness ==
    /\ DryRunBound
    /\ Len(bind_data.files) > STANDARD_VECTOR_SIZE
    /\ Range(bind_data.files) \cap fs # {}
    /\ Emitted = bind_data.files

OrphanBound == Bound /\ bind_data.type = ORPHANED_FILES

\* C2: orphan reclamation, dry run or not, never calls
\* RemoveFilesScheduledForCleanup and never changes the catalog rows; its
\* steps only ever remove files from storage.
C2_OrphanNeverMutatesCatalog ==
    /\ [](OrphanBound => ~CatalogRemovalLogged)
    /\ [][OrphanBound => (scheduled' = scheduled /\ fs' \subseteq fs)]_vars

\* C2 witness: a non-dry-run orphan reclamation has removed a file.
C2_Witness ==
    /\ OrphanBound
    /\ ~bind_data.dry_run
    /\ executed
    /\ \E i \in DOMAIN log : log[i].op = "TryRemoveFile" /\ log[i].ok

OldDestructive ==
    Bound /\ bind_data.type = OLD_FILES /\ ~bind_data.dry_run /\ bind_data.files # <<>>

\* C3: old-file reclamation without dry run on a non-empty candidate list does
\* nothing before its first Execute call; that call attempts a removal of every
\* candidate, in list order, and only then removes the catalog rows of exactly
\* the bound candidate list; no later call touches the catalog again.
C3_TwoPhaseOldFiles ==
    /\ [](OldDestructive =>
            IF calls = 0 THEN log = <<>> /\ ~executed
            ELSE LET n == Len(bind_data.files)
                 IN /\ executed
                    /\ Len(log) = n + 1
                    /\ \A i \in 1 .. n :
                          log[i].op = "TryRemoveFile" /\ log[i].path = bind_data.files[i]
                    /\ log[n + 1].op = "RemoveFilesScheduledForCleanup"
                    /\ log[n + 1].files = bind_data.files
                    /\ scheduled \cap Range(bind_data.files) = {})
    /\ [][OldDestructive =>
            scheduled' = IF calls = 0 THEN scheduled \ Range(bind_data.files) ELSE scheduled]_vars

\* C3 witness: the destructive phase of an old-file reclamation has run over
\* several candidates, one of which was no longer on storage.
C3_Witness ==
    /\ OldDestructive
    /\ executed
    /\ Len(bind_data.files) >= 2
    /\ \E i \in DOMAIN log : log[i].op = "TryRemoveFile" /\ ~log[i].ok
    /\ \E i \in DOMAIN log : log[i].op = "TryRemoveFile" /\ log[i].ok

\* named parameters with every boolean given as false taken out
HonouredParameters(np) ==
    [np EXCEPT !.dry_run = IF @ = <<FALSE>> THEN Absent ELSE @,
               !.cleanup_all = IF @ = <<FALSE>> THEN Absent ELSE @]

BindOf(type, np) ==
    IF type = OLD_FILES
    THEN DuckLakeCleanupOldFilesBind(np, fs, scheduled)
    ELSE DuckLakeCleanupOrphanedFilesBind(np, config, fs, scheduled)

\* C4: the value of dry_run and cleanup_all is honoured at bind: a call that
\* gives dry_run=false or cleanup_all=false binds exactly as the same call with
\* that parameter left out (in particular dry_run=false binds a destructive run).
C4_BooleanOptionsHonoured ==
    (bind_data # Unbound /\ calls = 0) =>
        /\ bind_data = BindOf(call.type, HonouredParameters(call.named_parameters))
        /\ (Bound /\ call.named_parameters.dry_run = <<FALSE>>) => ~bind_data.dry_run

OldFilesCall == bind_data # Unbound /\ call.type = OLD_FILES

Rejected == bind_data.status = "error" /\ bind_data.error = "InvalidInputException"

\* C5: old-file cleanup binds exactly when one of cleanup_all=true and
\* older_than=<ts> is selected: both selected is rejected with an input error,
\* neither is rejected, exactly one succeeds.
C5_OldFilesFilterExclusivity ==
    OldFilesCall =>
        LET all == call.named_parameters.cleanup_all = <<TRUE>>
            ts == Present(call.named_parameters.older_than)
        IN /\ (all /\ ts) => Rejected
           /\ (~all /\ ~ts) => Rejected
           /\ (all # ts) => Bound

OrphanCall == bind_data # Unbound /\ call.type = ORPHANED_FILES

ToInt(b) == IF b THEN 1 ELSE 0

-----------------------------------------------------------------------------
(* Properties of DuckLakeUpdate (checked under SpecUpdate) *)

\* rows sunk into the operator so far
RowsSunk == next_row - 1

\* the rows of a sequence of sunk chunks, in sink order
RowsOf(sunk) == Flatten([i \in DOMAIN sunk |-> sunk[i].rows])

NonEmpty(e) == e.size > 0

\* sizes of the non-empty chunks copy_op.GetData produced, in order
ProducedNonEmpty ==
    LET kept == SelectSeq(produced, NonEmpty)
    IN [i \in DOMAIN kept |-> kept[i].size]

IsPrefix(s, t) == Len(s) <= Len(t) /\ s = SubSeq(t, 1, Len(s))

\* C7: with R rows sunk in any batches by any threads, the delete operator
\* was handed the row-identifier triples of exactly those R rows and the copy
\* operator each batch once, batch by batch; unless the replay aborts, every
\* non-empty chunk the copy source produced was sunk into the insert operator
\* exactly once, in order (on an abort the chunks sunk are a prefix of the
\* produced ones); and the count reported when the update is done is R.
C7_UpdateConservation ==
    /\ RowsOf(delete_sunk) = DeleteChunk(InputChunk(1, RowsSunk))
    /\ RowsOf(copy_sunk) = InsertChunk(InputChunk(1, RowsSunk))
    /\ Len(copy_sunk) = Len(delete_sunk)
    /\ \A i \in DOMAIN copy_sunk :
          /\ copy_sunk[i].thread = delete_sunk[i].thread
          /\ Len(copy_sunk[i].rows) = Len(delete_sunk[i].rows)
    /\ IsPrefix(insert_sunk, ProducedNonEmpty)
    /\ upc # "error" => insert_sunk = ProducedNonEmpty
    /\ upc = "done" => result_chunk = <<RowsSunk>>

\* C7 witness: an update of MaxRows rows sunk by two threads has replayed
\* several chunks, an empty one ending the replay, and reported its count.
C7_Witness ==
    /\ upc = "done"
    /\ RowsSunk = MaxRows
    /\ \A t \in Threads : \E i \in DOMAIN copy_sunk : copy_sunk[i].thread = t
    /\ Len(insert_sunk) >= 1
    /\ Len(produced) > Len(insert_sunk)

Combined == {t \in Threads : lstate[t].pc = "combined"}

LocalCounts == [t \in Threads |-> lstate[t].updated_count]

\* C8: in every interleaving of the threads' Sink and Combine calls the
\* global total is the sum of the local counts of the threads whose Combine
\* has returned, so after all Combines it is the sum over all threads, and
\* GetData emits exactly one row holding it.
C8_CountIsSumOfLocalCounts ==
    /\ total_updated_count = SumOver(LocalCounts, Combined)
    /\ AllCombined => total_updated_count = SumOver(LocalCounts, Threads)
    /\ upc = "done" => result_chunk = <<SumOver(LocalCounts, Threads)>>

\* C8 witness: the threads' Sink calls interleaved, every thread counted
\* rows of its own, and the total was emitted.
C8_Witness ==
    /\ upc = "done"
    /\ \A t \in Threads : lstate[t].updated_count > 0
    /\ \E i, j, k \in DOMAIN copy_sunk :
          /\ i < j /\ j < k
          /\ copy_sunk[i].thread = copy_sunk[k].thread
          /\ copy_sunk[i].thread # copy_sunk[j].thread
    /\ Len(result_chunk) = 1

BlockedInReplay ==
    \E i \in DOMAIN trace :
        /\ trace[i].op \in {"copy_op.GetData", "insert_op.Sink"}
        /\ trace[i].result = "BLOCKED"

\* C9: once copy_op.GetData or insert_op.Sink has reported BLOCKED during the
\* replay, Finalize has aborted with the internal error: it neither goes on
\* nor returns READY.
C9_BlockedAlwaysAborts == BlockedInReplay => upc = "error"

-----------------------------------------------------------------------------
(* Properties of PlanUpdate (checked under SpecPlan) *)

Planned == plan # NotPlanned

\* C10: an UPDATE with a RETURNING clause or a SET DEFAULT expression is
\* rejected with a BinderException before any of the copy, delete and insert
\* operators is planned; no other statement gets a BinderException.
C10_RejectedBeforePlanning ==
    Planned =>
        /\ (plan_op.return_chunk \/ HasDefault(plan_op)) =>
              /\ plan.status = "error"
              /\ plan.error = "BinderException"
              /\ plan.planned = <<>>
        /\ plan.error = "BinderException" => (plan_op.return_chunk \/ HasDefault(plan_op))

\* C10 witness: an update of several columns with a RETURNING clause and no
\* SET DEFAULT was rejected.
C10_Witness ==
    /\ Planned
    /\ plan.error = "BinderException"
    /\ plan_op.return_chunk
    /\ ~HasDefault(plan_op)
    /\ Len(plan_op.columns) >= 2

\* batches of row identifiers handed to the delete operator
TargetBatches == UNION {[1 .. k -> 1 .. 2] : k \in 0 .. 3}

DeletePlanned == \E i \in DOMAIN plan.planned : plan.planned[i] = "PlanDelete"

\* C11: whenever PlanUpdate plans the delete operator it passes
\* allow_duplicates = false, not PlanDelete's default of true, so a batch that
\* names the same row identifier twice is an error of that operator and is
\* not deduplicated.
C11_UpdateDisallowsDuplicates ==
    (Planned /\ DeletePlanned) =>
        /\ plan.allow_duplicates = FALSE
        /\ plan.allow_duplicates # PlanDeleteDefaultAllowDuplicates
        /\ \A targets \in TargetBatches :
              LET outcome == InvalidateTargets(plan.allow_duplicates, targets)
              IN IF Cardinality(Range(targets)) < Len(targets)
                 THEN outcome.status = "error"
                 ELSE outcome.status = "ok" /\ outcome.deleted = Range(targets)

\* C11 witness: an update of a partitioned table was planned.
C11_Witness ==
    /\ plan.status = "ok"
    /\ DeletePlanned
    /\ plan_op.partition_fields # <<>>

\* the expression the statement assigns to physical column `col`
NewValueOf(op, col) ==
    op.expressions[CHOOSE j \in DOMAIN op.columns : op.columns[j] = col]

\* the scalar function a transform stands for ("" for the identity)
TransformFunction(transform) ==
    CASE transform = "IDENTITY" -> ""
      [] transform = "YEAR" -> "year"
      [] transform = "MONTH" -> "month"
      [] transform = "DAY" -> "day"
      [] transform = "HOUR" -> "hour"

HasUnknownTransform(op) ==
    \E f \in DOMAIN op.partition_fields : op.partition_fields[f].transform \notin TransformTypes

\* C12: a planned update carries, after its n column expressions, one
\* expression per partition field, in field order: the field's transform
\* (pass-through for IDENTITY, else the year/month/day/hour function) applied
\* to a reference to the very child column that holds the new value of the
\* field's source column. A field with any other transform makes PlanUpdate
\* fail with NotImplementedException, and nothing else does.
C12_PartitionRederivation ==
    (Planned /\ ~RejectsAtBind(plan_op)) =>
        LET n == Len(plan_op.columns)
            fields == plan_op.partition_fields
        IN IF HasUnknownTransform(plan_op)
           THEN plan.status = "error" /\ plan.error = "NotImplementedException"
           ELSE /\ plan.status = "ok"
                /\ Len(plan.expressions) = n + Len(fields)
                /\ \A f \in DOMAIN fields :
                      LET source == NewValueOf(plan_op, fields[f].partition_key_index)
                          e == plan.expressions[n + f]
                      IN /\ e.index = source.index
                         /\ e.function = TransformFunction(fields[f].transform)
                         /\ e.type = IF fields[f].transform = "IDENTITY"
                                     THEN "BOUND_REF" ELSE "BOUND_FUNCTION"

\* C12 witness: a DAY partition field over a column whose assignment is not
\* at the column's own position in the SET list.
C12_Witness ==
    /\ plan.status = "ok"
    /\ \E f \in DOMAIN plan_op.partition_fields :
          /\ plan_op.partition_fields[f].transform = "DAY"
          /\ plan_op.columns[plan_op.partition_fields[f].partition_key_index + 1]
                # plan_op.partition_fields[f].partition_key_index

\* thread t returns from AddDeleteData in this step
ReturnsFromAddDeleteData(t) ==
    /\ rstate[t].pc = "locked" /\ rstate[t].op = "AddDeleteData"
    /\ rstate'[t].pc = "idle"

C14_EveryAccessUnderLock ==
    \A t \in Threads : rstate[t].pc \in {"locked", "file_map"} => mutex = t

\* the call thread t made last, once it has returned
Returned(t, op) == rstate[t].pc = "idle" /\ rstate[t].op = op

RoundTripTypes == {BaseType(id) : id \in TableIds \ {"DECIMAL"}} \cup DecimalTypes

\* C16: a base type of the vocabulary, or a decimal with width >= scale >= 0,
\* is encoded without error, and decoding the string ToString produced gives
\* back the very same type.
C16_TypeRoundTrip ==
    (ty_type \in RoundTripTypes) =>
        /\ ty_encoded.status = "ok"
        /\ ty_token # Absent => ty_decoded = Decoded(ty_type)

\* C16 witness: decimal(10,2) and the TIMESTAMP type, which has two names in
\* the vocabulary, went through ToString and FromString.
C16_Witness ==
    /\ ty_type \in {DECIMAL(10, 2), BaseType("TIMESTAMP")}
    /\ ty_token # Absent
    /\ ty_decoded.status = "ok"

IsDecimalForm(str) == StartsWith(str, DecimalPrefix) /\ EndsWith(str, <<")">>)

\* what stands between "decimal(" and ")"
DecimalSpecOf(str) == SubSeq(str, Len(DecimalPrefix) + 1, Len(str) - 1)

\* the parts of str between its commas, empty parts included
RECURSIVE CommaSeparated(_)
CommaSeparated(str) ==
    IF \A i \in DOMAIN str : str[i] # ","
    THEN <<str>>
    ELSE LET k == CHOOSE i \in DOMAIN str : str[i] = "," /\ \A j \in 1 .. (i - 1) : str[j] # ","
         IN <<SubSeq(str, 1, k - 1)>> \o CommaSeparated(SubSeq(str, k + 1, Len(str)))

IsInteger(str) == str # <<>> /\ \A i \in DOMAIN str : str[i] \in Range(Digits)

IsWidthAndScale(parts) == Len(parts) = 2 /\ IsInteger(parts[1]) /\ IsInteger(parts[2])

\* C17: decoding a string of the form decimal(...) succeeds, with the width
\* and the scale written in it, when the parentheses hold exactly two
\* comma-separated integers, and otherwise fails with the error for an
\* invalid DECIMAL specification (NotImplementedException).
C17_DecimalParsing ==
    (ty_token # Absent /\ IsDecimalForm(ty_token[1])) =>
        LET parts == CommaSeparated(DecimalSpecOf(ty_token[1]))
        IN IF IsWidthAndScale(parts)
           THEN ty_decoded = Decoded(DECIMAL(DigitsValue(parts[1]), DigitsValue(parts[2])))
           ELSE /\ ty_decoded.status = "error"
                /\ ty_decoded.error = "NotImplementedException"

\* a type under an alias other than the JSON type and GEOMETRY over BLOB
HasUnsupportedAlias(type) ==
    /\ type.alias # ""
    /\ ~(type.alias = "JSON" /\ type.id = "VARCHAR")
    /\ ~(type.alias = "GEOMETRY" /\ type.id = "BLOB")

IsUnsupported(type) ==
    \/ HasUnsupportedAlias(type)
    \/ type.id = "VARCHAR" /\ type.collation # ""
    \/ type.id \notin TableIds \cup NestedIds

VocabularyNameOf(id) ==
    DUCKLAKE_TYPES[CHOOSE i \in DOMAIN DUCKLAKE_TYPES :
                      /\ DUCKLAKE_TYPES[i].id = id
                      /\ \A j \in 1 .. (i - 1) : DUCKLAKE_TYPES[j].id # id].name

FixedToken(type) ==
    CASE type.alias = "JSON" -> JsonName
      [] type.alias = "GEOMETRY" -> GeometryName
      [] type.id = "STRUCT" -> StructName
      [] type.id = "LIST" -> ListName
      [] type.id = "MAP" -> MapName
      [] type.id = "DECIMAL" ->
            DecimalPrefix \o to_string(type.width) \o <<",">> \o to_string(type.scale) \o <<")">>
      [] OTHER -> VocabularyNameOf(type.id)

InVocabulary(str) ==
    \/ \E name \in VocabularyNames : CIEquals(str, name)
    \/ /\ IsDecimalForm(Lower(str))
       /\ IsWidthAndScale(CommaSeparated(DecimalSpecOf(str)))

\* C19: FromString accepts a string exactly when it is in the closed
\* vocabulary, whatever its letter case: strings that differ only in letter
\* case decode to the same result, and every string outside the vocabulary
\* fails with InvalidInputException.
C19_ClosedVocabularyAnyCase ==
    (ty_token # Absent) =>
        /\ ty_decoded.status = "ok" <=> InVocabulary(ty_token[1])
        /\ ty_decoded.status = "error" => ty_decoded.error = "InvalidInputException"
        /\ \A other \in CaseVariants(ty_token[1]) : FromString(other) = ty_decoded

\* at least one call of a reclamation that is not a dry run and has candidates
ReclamationStarted ==
    Bound /\ ~bind_data.dry_run /\ calls >= 1 /\ bind_data.files # <<>>

\* C20: in a reclamation that is not a dry run, removal is attempted for every
\* candidate, in list order, whether or not earlier removals failed; no
\* candidate is left on storage, the function stays bound without error, and
\* the candidate paths are emitted as in any other run (after k calls the
\* first min(|files|, k * STANDARD_VECTOR_SIZE) of them).
C20_RemovalFailuresTolerated ==
    ReclamationStarted =>
        /\ Len(log) >= Len(bind_data.files)
        /\ \A i \in DOMAIN bind_data.files :
              log[i].op = "TryRemoveFile" /\ log[i].path = bind_data.files[i]
        /\ fs \cap Range(bind_data.files) = {}
        /\ Emitted = SubSeq(bind_data.files, 1,
                            Min(Len(bind_data.files), calls * STANDARD_VECTOR_SIZE))

\* C20 witness: a removal failed, a later candidate was removed all the same,
\* and the whole candidate list, the failed one included, was emitted.
C20_Witness ==
    /\ ReclamationStarted
    /\ \E i, j \in DOMAIN bind_data.files :
          /\ i < j
          /\ ~log[i].ok
          /\ log[j].ok
    /\ Emitted = bind_data.files

\* thread t returns from the locked method op in this step
ReturnsFrom(t, op) ==
    /\ rstate[t].pc = "locked" /\ rstate[t].op = op
    /\ rstate'[t].pc = "idle"

\* C21: every file name has at most one delete data entry (the map is a
\* function of the file name); rows recorded for a file stay recorded through
\* every step that is not a ClearDeletes of that very file; a ClearDeletes
\* leaves the file without delete data, and GetDeleteData returns nullptr
\* exactly for a file without delete data.
C21_DeleteDataOnlyClearedExplicitly ==
    [][/\ \A f \in RegistryFiles :
             /\ Len(delete_data_map'[f]) <= 1
             /\ delete_data_map[f] # Absent =>
                   \/ /\ delete_data_map'[f] # Absent
                      /\ delete_data_map[f][1] \subseteq delete_data_map'[f][1]
                   \/ /\ delete_data_map'[f] = Absent
                      /\ \E t \in Threads : ReturnsFrom(t, "ClearDeletes") /\ rstate[t].file = f
       /\ \A t \in Threads :
             /\ ReturnsFrom(t, "ClearDeletes") => delete_data_map'[rstate[t].file] = Absent
             /\ ReturnsFrom(t, "GetDeleteData") =>
                   IF delete_data_map[rstate[t].file] = Absent
                   THEN rstate'[t].status = "nullptr"
                   ELSE /\ rstate'[t].status = "ok"
                        /\ rstate'[t].found_rows = delete_data_map[rstate[t].file]]_vars

\* C21 witness: two threads added delete data for the same file, and a lookup
\* made afterwards by the first of them still found exactly its own rows.
C21_Witness ==
    \E f \in RegistryFiles, t, u \in Threads :
        /\ t # u
        /\ Returned(u, "AddDeleteData") /\ rstate[u].file = f
        /\ merged[f] = DeleteDataOf(t) \cup DeleteDataOf(u)
        /\ Returned(t, "GetDeleteData") /\ rstate[t].file = f
        /\ rstate[t].found_rows = <<DeleteDataOf(t)>>

-----------------------------------------------------------------------------
(* Finalize ordering *)

\* the positions of the trace at which the nested operator call op was made
CallsOf(op) == {i \in 1 .. Len(trace) : trace[i].op = op}

ReplayOps == {"copy_op.GetData", "insert_op.Sink"}
FinalizeOps == {"copy_op.Finalize", "delete_op.Finalize", "insert_op.Finalize"}

\* C23: Finalize finalizes the copy and then the delete, each returning READY,
\* before the first copy_op.GetData and insert_op.Sink of the replay; the
\* insert is finalized only after the last call of the replay loop; a nested
\* Finalize that returns anything but READY is the last call Finalize makes,
\* and Finalize ends in the internal error.
C23_FinalizeOrdering ==
    \A i \in DOMAIN trace :
        LET c == trace[i]
        IN /\ c.op = "delete_op.Finalize" =>
                 i > 1 /\ trace[i - 1] = Call("copy_op.Finalize", 0, "READY")
           /\ c.op \in ReplayOps =>
                 \E k \in 1 .. (i - 1) : trace[k] = Call("delete_op.Finalize", 0, "READY")
           /\ c.op = "insert_op.Finalize" =>
                 /\ upc # "replay"
                 /\ i = Len(trace)
                 /\ i > 1 /\ trace[i - 1].op \in ReplayOps
           /\ c.op \in FinalizeOps =>
                 /\ \A j \in DOMAIN trace : j # i => trace[j].op # c.op
                 /\ c.result # "READY" => i = Len(trace) /\ upc = "error"

\* C23 witness: Finalize returned READY after a replay of more than one chunk.
C23_Witness ==
    /\ upc = "ready"
    /\ Cardinality(CallsOf("insert_op.Sink")) >= 2
    /\ trace[Len(trace)] = Call("insert_op.Finalize", 0, "READY")

-----------------------------------------------------------------------------
(* Combine error handling *)

\* the nested Combine calls thread t has made, in the order it made them
CombineCallsOf(t) ==
    SelectSeq(trace, LAMBDA c : c.thread = t /\ c.op \in {"copy_op.Combine", "delete_op.Combine"})

Folded == {t \in Threads : lstate[t].pc = "combined"}

\* C29: a thread whose copy_op.Combine or delete_op.Combine returned anything
\* but FINISHED has aborted with the internal error, made no further nested
\* call, and its local count is not part of the total; the total holds the
\* local counts of exactly the threads for which copy_op.Combine and then
\* delete_op.Combine returned FINISHED.
C29_CombineErrorHandling ==
    /\ \A t \in Threads :
          LET made == CombineCallsOf(t)
          IN /\ lstate[t].pc = "sink" <=> made = <<>>
             /\ lstate[t].pc = "combined" <=>
                    made = <<Call("copy_op.Combine", t, "FINISHED"),
                              Call("delete_op.Combine", t, "FINISHED")>>
             /\ lstate[t].pc = "failed" <=>
                    \/ /\ Len(made) = 1
                       /\ made[1].op = "copy_op.Combine" /\ made[1].result # "FINISHED"
                    \/ /\ Len(made) = 2
                       /\ made[1] = Call("copy_op.Combine", t, "FINISHED")
                       /\ made[2].op = "delete_op.Combine" /\ made[2].result # "FINISHED"
             /\ lstate[t].pc = "failed" =>
                    /\ upc = "error"
                    /\ trace[Len(trace)] = made[Len(made)]
    /\ total_updated_count = SumOver([t \in Threads |-> lstate[t].updated_count], Folded)

\* C29 witness: one thread's count was folded into the total, and then the
\* delete_op.Combine of another thread that had sunk rows did not finish.
C29_Witness ==
    \E t, u \in Threads :
        /\ lstate[t].pc = "combined" /\ lstate[t].updated_count > 0
        /\ lstate[u].pc = "failed" /\ lstate[u].updated_count > 0
        /\ Len(CombineCallsOf(u)) = 2
        /\ total_updated_count = lstate[t].updated_count

-----------------------------------------------------------------------------
(* Column alignment of the rewritten row *)

\* the position in the SET list of the assignment to physical column index
AssignmentOf(op, index) == CHOOSE j \in 1 .. Len(op.columns) : op.columns[j] = index

\* C28: with the update columns a permutation of 0..n-1, expression i of the
\* planned operator is the expression assigned to physical column i and the
\* partition expressions follow the n column expressions; a Sink call writes,
\* per input row, the new value of physical column i as column i of the insert
\* chunk and the row id as its last column, and the delete chunk holds the
\* last three columns of every input row, with the cardinality of the input.
C28_ColumnAlignment ==
    LET n == Len(plan_op.columns)
        chunk == plan_sunk.chunk
    IN /\ plan.status = "ok" =>
             /\ Len(plan.expressions) = n + Len(plan_op.partition_fields)
             /\ \A i \in 0 .. (n - 1) :
                   plan.expressions[i + 1] = plan_op.expressions[AssignmentOf(plan_op, i)]
       /\ plan_sunk # NotSunk =>
             /\ Len(plan_sunk.insert_chunk) = Len(chunk)
             /\ Len(plan_sunk.delete_chunk) = Len(chunk)
             /\ \A r \in 1 .. Len(chunk) :
                   LET row == plan_sunk.insert_chunk[r]
                   IN /\ Len(row) = Len(plan.expressions) + 1
                      /\ \A i \in 0 .. (n - 1) :
                            row[i + 1] = chunk[r][AssignmentOf(plan_op, i)]
                      /\ row[Len(row)] = chunk[r][n + 1]
                      /\ plan_sunk.delete_chunk[r] =
                            SubSeq(chunk[r], Len(chunk[r]) - 2, Len(chunk[r]))

\* C28 witness: an update whose SET list is not in column order, on a
\* partitioned table, has sunk a chunk of two rows.
C28_Witness ==
    /\ plan_sunk # NotSunk
    /\ Len(plan_sunk.chunk) = 2
    /\ plan_op.partition_fields # <<>>
    /\ \E j \in 1 .. Len(plan_op.columns) : plan_op.columns[j] # j - 1

-----------------------------------------------------------------------------
(* Streaming of the cleanup result (checked under SpecCleanup) *)

\* the side effects logged in this step
Logged == SubSeq(log', Len(log) + 1, Len(log'))

\* C24: over all the DuckLakeCleanupExecute calls of one invocation the
\* destructive phase runs at most once: a step that removes files or catalog
\* rows starts from an empty log with nothing emitted yet, performs the whole
\* phase and sets executed; so one removal is attempted per candidate, the
\* catalog is asked at most once, and paths were emitted in a run that is not
\* a dry run only once the phase has run.
C24_DestructivePhaseOnce ==
    /\ [][log' # log =>
            /\ log = <<>> /\ Emitted = <<>> /\ ~executed /\ executed'
            /\ Logged = DestructiveEvents(bind_data, fs)]_vars
    /\ []((Bound /\ Emitted # <<>> /\ ~bind_data.dry_run) =>
            /\ executed
            /\ Len(SelectSeq(log, LAMBDA e : e.op = "TryRemoveFile")) = Len(bind_data.files)
            /\ Len(SelectSeq(log, LAMBDA e : e.op = "RemoveFilesScheduledForCleanup"))
                   = IF bind_data.type = OLD_FILES THEN 1 ELSE 0)

\* C24 witness: an old-file reclamation streamed its candidates in more than
\* one batch and went on being called after the last one.
C24_Witness ==
    /\ Bound /\ ~bind_data.dry_run /\ bind_data.type = OLD_FILES
    /\ executed
    /\ Len(bind_data.files) > STANDARD_VECTOR_SIZE
    /\ Emitted = bind_data.files
    /\ Len(output) > 2 /\ output[Len(output)] = <<>>

\* C25: the calls emit the candidate paths once each, in candidate order: what
\* was emitted so far is the first offset candidates; no call emits more than
\* STANDARD_VECTOR_SIZE rows; a call emits no row only when every candidate
\* was emitted before it; the offset never decreases, and once it has reached
\* the end of the list a call emits nothing and leaves it there.
C25_ResultStreaming ==
    /\ [](Bound =>
            /\ offset <= Len(bind_data.files)
            /\ Emitted = SubSeq(bind_data.files, 1, offset)
            /\ \A i \in DOMAIN output :
                  /\ Len(output[i]) <= STANDARD_VECTOR_SIZE
                  /\ output[i] = <<>> =>
                        Flatten(SubSeq(output, 1, i - 1)) = bind_data.files)
    /\ [][/\ offset' >= offset
          /\ (Bound /\ offset = Len(bind_data.files) /\ output' # output) =>
                (output' = Append(output, <<>>) /\ offset' = offset)]_vars

\* C25 witness: a reclamation that is not a dry run emitted a full batch and
\* then the rest of its candidates, and the call after that emitted nothing.
C25_Witness ==
    /\ Bound /\ ~bind_data.dry_run
    /\ Len(output) = 3
    /\ Len(output[1]) = STANDARD_VECTOR_SIZE
    /\ output[2] # <<>>
    /\ output[3] = <<>>
    /\ offset = Len(bind_data.files)

-----------------------------------------------------------------------------
(* CheckSupportedType (checked under SpecTypes) *)

RECURSIVE NodesInWalkOrder(_)
\* the nodes of a type tree: the children from left to right, then the type
NodesInWalkOrder(type) ==
    IF type.id \in NestedIds
    THEN Flatten([i \in DOMAIN type.children |-> NodesInWalkOrder(type.children[i])])
             \o <<type>>
    ELSE <<type>>

\* C26: CheckSupportedType succeeds exactly when ToString succeeds on every
\* node of the type tree, and otherwise fails with what ToString throws for
\* the first node of the walk that ToString refuses.
C26_CheckSupportedIsEncodeOnEveryNode ==
    ty_checked # NotChecked =>
        LET nodes == NodesInWalkOrder(ty_checked.type)
            refused == {i \in DOMAIN nodes : TypeToString(nodes[i]).status = "error"}
        IN IF refused = {}
           THEN ty_checked.status = "ok"
           ELSE LET first == TypeToString(nodes[CHOOSE i \in refused : \A j \in refused : i <= j])
                IN /\ ty_checked.status = "error"
                   /\ ty_checked.error = first.error
                   /\ ty_checked.message = first.message

-----------------------------------------------------------------------------
(* BindUpdateConstraints (checked under SpecPlan) *)

\* C27: after BindUpdateConstraints every physical column of the table is in
\* update.columns exactly once; what the statement held before is still
\* there, in place; for every column that was missing, and for no other, one
\* column, one expression and one projection were appended, the expression
\* passing through the projection that reads that very column from the scan;
\* update.columns and update.expressions have the same length.
C27_EveryColumnOnce ==
    bound # NotBound =>
        LET before == bound.before
            after == bound.after
            had == Len(before.columns)
            missing == (0 .. (bound.table_columns - 1)) \ Range(before.columns)
        IN /\ \A c \in 0 .. (bound.table_columns - 1) :
                 Cardinality({j \in DOMAIN after.columns : after.columns[j] = c}) = 1
           /\ SubSeq(after.columns, 1, had) = before.columns
           /\ SubSeq(after.expressions, 1, had) = before.expressions
           /\ SubSeq(after.proj_expressions, 1, Len(before.proj_expressions))
                 = before.proj_expressions
           /\ Len(after.columns) = had + Cardinality(missing)
           /\ Len(after.expressions) = Len(after.columns)
           /\ Len(after.proj_expressions) = Len(before.proj_expressions) + Cardinality(missing)
           /\ \A k \in (had + 1) .. Len(after.columns) :
                 LET e == after.expressions[k]
                     p == after.proj_expressions[e.column_index + 1]
                 IN /\ after.columns[k] \in missing
                    /\ e.table = "proj" /\ e.column_index >= Len(before.proj_expressions)
                    /\ p.table = "get"
                    /\ after.column_ids[p.column_index + 1] = after.columns[k]

\* C27 witness: an update that sets the second column only, over a scan that
\* does not read the first column, was bound.
C27_Witness ==
    /\ bound # NotBound
    /\ bound.table_columns >= 2
    /\ bound.before.columns = <<1>>
    /\ 0 \notin Range(bound.before.column_ids)
    /\ bound.after.columns = <<1, 0>>

====
